---- MODULE Spec2Model ----
(***************************************************************************)
(* Session / authentication lifecycle coordinator (libs/actions/Session).  *)
(*                                                                         *)
(* JavaScript values are encoded as strings: NULL stands for null or       *)
(* undefined (an absent field), "" for the empty string, "true"/"false"    *)
(* for booleans stored in the reactive store.  A store key holding null    *)
(* and a store key holding an object without fields read the same through  *)
(* optional chaining (session?.authToken ?? null), so both are the record  *)
(* whose fields are all NULL.                                              *)
(***************************************************************************)
EXTENDS Integers, Sequences, FiniteSets, TLC

\* ------------------------------------------------------------------ bounds
MaxWaiters == 2
MaxFlows == 1
MaxOverlap == 2
MaxSignOuts == 2
MaxLookups == 1
MaxCallbackCalls == 1
MaxRequests == 2
MaxTriggers == 3
MaxTime == 6000
MaxRouteLen == 4

\* ------------------------------------------------------------------ values
NULL == "null"

\* JavaScript truthiness of a string | null value
Truthy(v) == v # NULL /\ v # ""

ANONYMOUS_ACCOUNT == "anonymousAccount"

NOT_STARTED == "NOT_STARTED"
SIGNING_IN == "SIGNING_IN"
JUST_SIGNED_IN == "JUST_SIGNED_IN"
FAILED == "FAILED"

SessionFields == {"authToken", "authTokenType", "autoAuthState", "supportAuthToken", "email", "accountID"}

\* the value of the SESSION key after Onyx.set(SESSION, {}) (or when the key is null)
EmptySession == [k \in SessionFields |-> NULL]

\* Onyx.merge of a partial object into an object: the fields of the patch
\* overwrite, every other field keeps its value
Merge(obj, patch) == [k \in DOMAIN obj |-> IF k \in DOMAIN patch THEN patch[k] ELSE obj[k]]

\* inputs of the operations
SupportTokens == {"", "sup"}
Emails == {"e1"}
AccountIDs == {"a1"}

ValidateCodes == {"c1"}
SignInValidateCodes == {"", "c1"}
Logins == {"l1"}
Tokens == {"t1"}
TwoFactorAuthCodes == {"", "tfa"}
Locales == {"en"}

AccountFields == {"isLoading", "errors", "message", "loadingForm", "success"}
EmptyAccount == [k \in AccountFields |-> NULL]

\* CONST.DEFAULT_ACCOUNT_DATA, spread into the optimistic Account patches
DEFAULT_ACCOUNT_DATA == [errors |-> NULL, success |-> "", isLoading |-> "false"]

LOGIN_FORM == "LoginForm"
RESEND_VALIDATION_FORM == "ResendValidationForm"
RESEND_VALIDATE_CODE_FORM == "ResendValidateCodeForm"
UNLINK_LOGIN_FORM == "UnlinkLoginForm"
VALIDATE_CODE_FORM == "ValidateCodeForm"
VALIDATE_TFA_CODE_FORM == "ValidateTfaCodeForm"

CredentialsFields == {"login", "autoGeneratedLogin", "autoGeneratedPassword", "validateCode", "accountID"}
EmptyCredentials == [k \in CredentialsFields |-> NULL]

\* what the persisted store can hold when the module is loaded: signed out, signed
\* out in the middle of a sign-in (login and validate code staged), an anonymous
\* account, a signed-in user
SignedOutStart == [session |-> EmptySession, credentials |-> EmptyCredentials]
MidSignInStart ==
    [session |-> EmptySession,
     credentials |-> Merge(EmptyCredentials, [login |-> "l0", validateCode |-> "c0"])]
AnonymousStart ==
    [session |-> Merge(EmptySession, [authToken |-> "anon", authTokenType |-> ANONYMOUS_ACCOUNT]),
     credentials |-> EmptyCredentials]
SignedInStart ==
    [session |-> Merge(EmptySession, [authToken |-> "tok", email |-> "e1", accountID |-> "a1"]),
     credentials |-> Merge(EmptyCredentials, [login |-> "l0", autoGeneratedLogin |-> "agl",
                                              autoGeneratedPassword |-> "agp"])]
InitStores == {SignedOutStart, MidSignInStart, AnonymousStart, SignedInStart}

\* ROUTES.SIGN_IN_MODAL, and the routes the model tells apart from it
SIGN_IN_MODAL == "sign-in-modal"
HOME == "home"
SIGN_IN_PAGE == "signin"
Routes == {HOME, SIGN_IN_MODAL, SIGN_IN_PAGE}

\* a link is the sequence of the segments of its path: r/123 is <<"r", "123">>, no
\* link (null) is << >>
InitialURLs == {<< >>, <<"r", "123">>, <<"r", "123", "details">>}

\* route.startsWith('/'): the text before the first separator is empty
StartsWithSlash(route) == Len(route) >= 2 /\ route[1] = ""

\* ReportUtils.parseReportRouteParams(route): a leading separator is dropped; the
\* segment after "r", unless it is missing or the text "undefined"; a longer path
\* is a sub-page of the report
ParseReportRouteParams(route) ==
    LET parsingRoute == IF StartsWithSlash(route) THEN Tail(route) ELSE route
    IN  IF Len(parsingRoute) < 2 \/ parsingRoute[1] # "r" \/ parsingRoute[2] = ""
           \/ parsingRoute[2] = "undefined"
        THEN [reportID |-> "", isSubReportPageRoute |-> FALSE]
        ELSE [reportID |-> parsingRoute[2], isSubReportPageRoute |-> Len(parsingRoute) > 2]

\* ReportUtils.getReportIDFromLink(url): the report a link opens, "" when it opens
\* none or a sub-page of one
GetReportIDFromLink(url) ==
    IF ParseReportRouteParams(url).isSubReportPageRoute
    THEN ""
    ELSE ParseReportRouteParams(url).reportID

\* the segments routes are made of: a route is the sequence of the texts between
\* its separators (route.split('/')), so "/r/123" is <<"", "r", "123">> and the
\* empty route is <<"">>
RouteSegments == {"", "r", "123", "details", "shareCode", "sign-in-modal", "undefined", "settings"}
RouteInputs == UNION {[1..n -> RouteSegments] : n \in 1..MaxRouteLen}

\* ROUTES.REPORT_WITH_ID_DETAILS.route and ROUTES.REPORT_WITH_ID_DETAILS_SHARE_CODE.route
REPORT_WITH_ID_DETAILS == <<"r", ":reportID", "details">>
REPORT_WITH_ID_DETAILS_SHARE_CODE == <<"r", ":reportID", "details", "shareCode">>

\* line 987: routesCanAccessByAnonymousUser
RoutesCanAccessByAnonymousUser ==
    {<<SIGN_IN_MODAL>>, REPORT_WITH_ID_DETAILS, REPORT_WITH_ID_DETAILS_SHARE_CODE}

\* String.prototype.replace(pattern, replacement) with a text pattern: the first
\* occurrence is replaced.  The pattern is a report identifier of the route, which
\* holds no separator, and the text before it is "r" or "/r": an occurrence
\* before the identifier itself is the whole segment "r", so the first segment
\* equal to the pattern is the first occurrence
ReplaceFirst(str, pattern, replacement) ==
    IF \E i \in 1..Len(str) : str[i] = pattern
    THEN LET i == CHOOSE i \in 1..Len(str) :
                      str[i] = pattern /\ \A j \in 1..(i - 1) : str[j] # pattern
         IN  [str EXCEPT ![i] = replacement]
    ELSE str

\* canAccessRouteByAnonymousUser(route), lines 974-993
CanAccessRouteByAnonymousUser(r) ==
    IF Truthy(GetReportIDFromLink(r))
    THEN TRUE
    ELSE LET replaced == IF Truthy(ParseReportRouteParams(r).reportID)
                         THEN ReplaceFirst(r, ParseReportRouteParams(r).reportID, ":reportID")
                         ELSE r
             routeRemovedReportId == IF StartsWithSlash(r) THEN Tail(replaced) ELSE replaced
         IN  routeRemovedReportId \in RoutesCanAccessByAnonymousUser

\* the wait of throttle(..., 5000, {trailing: false}), line 713, in milliseconds
ThrottleWait == 5000

\* the clock advances by these amounts
TickSteps == {1000}

\* the outcomes of one AuthenticatePusher request: the three kinds of response, and
\* the rejection of the request
PusherOutcomes == {"notAuthenticated", "otherError", "success", "rejected"}

VARIABLES
    session,              \* value of ONYXKEYS.SESSION in the store
    sessionPending,       \* TRUE: the store holds a value the subscriber has not been called with yet
    sessionAuthTokenType, \* module mirror, line 122
    sessionAuthToken,     \* module mirror, line 123
    authPromiseResolver,  \* line 124: 0 is null, p > 0 is the resolve function of promise p
    promise,              \* the promises returned by waitForUserSignIn
    networkAuthToken,     \* NetworkStore's auth token
    credentialsStore,     \* value of ONYXKEYS.CREDENTIALS in the store
    credentialsPending,   \* TRUE: the subscriber has not been called with the stored value yet
    credentials,          \* module mirror, line 139
    preferredLocale,      \* module mirror, line 145
    account,              \* value of ONYXKEYS.ACCOUNT in the store
    flows,                \* the command-issuing flows: position and arguments of each
    heldAction,           \* what the last checkIfActionIsAllowed returned to its caller
    callbackCalls,        \* number of calls of the callback given to checkIfActionIsAllowed
    activeRoute,          \* the route Navigation shows
    initialURL,           \* Linking.getInitialURL(): the deep link the app was opened with
    initialURLLookups,    \* number of getInitialURL() promises not resolved yet
    lastOpenedPublicRoomID, \* value of ONYXKEYS.LAST_OPENED_PUBLIC_ROOM_ID
    logOutCommands,       \* the LogOut commands issued, with their parameters and outcome
    cacheClearsStarted,   \* number of clearCache() calls
    cacheClearsDone,      \* number of clearCache() promises resolved
    timingClears,         \* number of Timing.clearData() calls
    now,                  \* Date.now()
    throttle,             \* the state of the throttled reauthenticatePusher (lodash)
    reauthTriggers,       \* the times of the calls of reauthenticatePusher
    reauthExecutions,     \* the times at which the throttled body ran
    reauthInFlight,       \* number of Authentication.reauthenticate() promises not settled
    pusherReconnects,     \* number of Pusher.reconnect() calls
    pusherRequests,       \* the authenticatePusher calls: status and the calls of their callback
    routeAsked,           \* the route canAccessRouteByAnonymousUser is asked about
    canAccessRoute        \* what it returned: NULL before the call, "true" or "false"

vars == <<session, sessionPending, sessionAuthTokenType, sessionAuthToken, authPromiseResolver,
          promise, networkAuthToken, credentialsStore, credentialsPending, credentials,
          preferredLocale, account, flows, heldAction, callbackCalls, activeRoute, initialURL,
          initialURLLookups, lastOpenedPublicRoomID, logOutCommands, cacheClearsStarted,
          cacheClearsDone, timingClears, now, throttle, reauthTriggers, reauthExecutions,
          reauthInFlight, pusherReconnects, pusherRequests, routeAsked, canAccessRoute>>

throttleVars == <<throttle, reauthTriggers, reauthExecutions, reauthInFlight>>
pusherVars == <<now, throttleVars, pusherReconnects, pusherRequests>>

routeVars == <<routeAsked, canAccessRoute>>
gateVars == <<heldAction, callbackCalls>>
signOutVars == <<logOutCommands, cacheClearsStarted, cacheClearsDone, timingClears>>
redirectVars == <<activeRoute, initialURL, initialURLLookups, lastOpenedPublicRoomID>>
signOutAndRedirectVars == <<gateVars, signOutVars, redirectVars>>

sessionVars == <<session, sessionPending>>
mirrorVars == <<sessionAuthTokenType, sessionAuthToken, networkAuthToken>>
waiterVars == <<authPromiseResolver, promise>>
credentialsVars == <<credentialsStore, credentialsPending>>
signInVars == <<credentialsStore, credentialsPending, credentials, preferredLocale, account, flows>>
coreVars == <<sessionVars, mirrorVars, waiterVars, signInVars>>

Flows == 1..MaxFlows

\* pc: "idle" (not started), "device" (waiting for Device.getDeviceInfoWithID()),
\* "inflight" (command issued), "succeeded", "failed" (command settled; the
\* arguments are dropped with the closure)
\* the arguments and the values read by a call: accountID, code (the validate code
\* the caller gave), validateCode (the one sent), twoFactorAuthCode, email (the
\* email or login sent), token (idToken, token or authToken), enable, locale (the
\* preferredLocale sent)
IdleFlow ==
    [pc |-> "idle", op |-> NULL, accountID |-> NULL, code |-> NULL, validateCode |-> NULL,
     twoFactorAuthCode |-> NULL, email |-> NULL, token |-> NULL, enable |-> NULL, locale |-> NULL]

Waiters == 1..MaxWaiters

\* status: "unused" (not created yet), "pending", "fulfilled_true", "fulfilled_false", "rejected"
\* registered: its resolve function has been stored in authPromiseResolver
NewPromise == [status |-> "unused", registered |-> FALSE]

\* the calls of the command-issuing operations that may be in progress together
\* when the overlap of sign-in flows is examined
OverlappingFlows == 1..MaxOverlap

InitStoresAndMirrors(starts) ==
    /\ \E st \in starts :
          /\ session = st.session
          /\ credentialsStore = st.credentials
    /\ credentialsPending = TRUE
    /\ credentials = EmptyCredentials
    /\ preferredLocale = NULL
    /\ account = EmptyAccount
    /\ sessionPending = TRUE
    /\ sessionAuthTokenType = ""
    /\ sessionAuthToken = NULL
    /\ authPromiseResolver = 0
    /\ promise = [p \in Waiters |-> NewPromise]
    /\ networkAuthToken = NULL

InitCore(starts) ==
    /\ InitStoresAndMirrors(starts)
    /\ flows = [f \in Flows |-> IdleFlow]

InitSignOutAndRedirect(urls) ==
    /\ heldAction = "none"
    /\ callbackCalls = 0
    /\ activeRoute = HOME
    /\ initialURL \in urls
    /\ initialURLLookups = 0
    /\ lastOpenedPublicRoomID = NULL
    /\ logOutCommands = << >>
    /\ cacheClearsStarted = 0
    /\ cacheClearsDone = 0
    /\ timingClears = 0

Requests == 1..MaxRequests

\* lastCallTime and timerId are -1 when undefined; timerId is the time the timer is due
InitPusher ==
    /\ now = 0
    /\ throttle = [lastCallTime |-> -1, lastInvokeTime |-> 0, timerId |-> -1, lastArgs |-> FALSE]
    /\ reauthTriggers = << >>
    /\ reauthExecutions = << >>
    /\ reauthInFlight = 0
    /\ pusherReconnects = 0
    /\ pusherRequests = [r \in Requests |-> [status |-> "unused", response |-> NULL, callbacks |-> << >>]]

\* no route has been asked about
InitRoute(routes) ==
    /\ routeAsked \in routes
    /\ canAccessRoute = NULL

Init ==
    /\ InitCore(InitStores)
    /\ InitSignOutAndRedirect({<< >>})
    /\ InitPusher
    /\ InitRoute({<<"">>})

\* a write to the SESSION key: the store changes now, the subscriber is called later
WriteSession(s) ==
    /\ session' = s
    /\ sessionPending' = TRUE

\* resolve(value) of promise p: a promise settles once, later calls do nothing
Resolve(pr, p, value) ==
    IF pr[p].status = "pending"
    THEN [pr EXCEPT ![p].status = IF value THEN "fulfilled_true" ELSE "fulfilled_false"]
    ELSE pr

\* NetworkStore keeps the auth token of the session it observes (its own
\* subscription to SESSION, called along with the one below)
NetworkStoreSessionCallback == networkAuthToken' = session.authToken

\* mutant of SessionCallback: the pending resolver is called on every session
\* change, whether or not the session holds a token
SessionCallback_ResolvesOnAnyChange ==
    /\ sessionPending
    /\ sessionPending' = FALSE
    /\ sessionAuthTokenType' = session.authTokenType
    /\ sessionAuthToken' = session.authToken
    /\ NetworkStoreSessionCallback
    /\ IF authPromiseResolver # 0
       THEN /\ promise' = Resolve(promise, authPromiseResolver, TRUE)
            /\ authPromiseResolver' = 0
       ELSE UNCHANGED waiterVars
    /\ UNCHANGED <<session, signInVars, signOutAndRedirectVars, pusherVars, routeVars>>

\* mutant of SessionCallback: the resolver is called and stays in the slot
SessionCallback_KeepsResolver ==
    /\ sessionPending
    /\ sessionPending' = FALSE
    /\ sessionAuthTokenType' = session.authTokenType
    /\ sessionAuthToken' = session.authToken
    /\ NetworkStoreSessionCallback
    /\ IF Truthy(session.authToken) /\ authPromiseResolver # 0
       THEN /\ promise' = Resolve(promise, authPromiseResolver, TRUE)
            /\ UNCHANGED authPromiseResolver
       ELSE UNCHANGED waiterVars
    /\ UNCHANGED <<session, signInVars, signOutAndRedirectVars, pusherVars, routeVars>>

\* Onyx.connect({key: SESSION, callback}), lines 126-137
SessionCallback ==
    /\ sessionPending
    /\ sessionPending' = FALSE
    /\ sessionAuthTokenType' = session.authTokenType
    /\ sessionAuthToken' = session.authToken
    /\ NetworkStoreSessionCallback
    /\ IF Truthy(session.authToken) /\ authPromiseResolver # 0
       THEN /\ promise' = Resolve(promise, authPromiseResolver, TRUE)
            /\ authPromiseResolver' = 0
       ELSE UNCHANGED waiterVars
    /\ UNCHANGED <<session, signInVars, signOutAndRedirectVars, pusherVars, routeVars>>

\* mutant of WaitForUserSignIn: the resolver is registered whatever the token
WaitForUserSignIn_AlwaysRegisters ==
    \E p \in Waiters :
        /\ promise[p].status = "unused"
        /\ \A q \in Waiters : q < p => promise[q].status # "unused"
        /\ promise' = [promise EXCEPT ![p] = [status |-> "pending", registered |-> TRUE]]
        /\ authPromiseResolver' = p
        /\ UNCHANGED <<sessionVars, mirrorVars, signInVars, signOutAndRedirectVars, pusherVars, routeVars>>

\* mutant of WaitForUserSignIn: a resolver already pending is kept, the new
\* promise's resolver is dropped
WaitForUserSignIn_KeepsFirst ==
    \E p \in Waiters :
        /\ promise[p].status = "unused"
        /\ \A q \in Waiters : q < p => promise[q].status # "unused"
        /\ IF Truthy(sessionAuthToken)
           THEN /\ promise' = [promise EXCEPT ![p].status = "fulfilled_true"]
                /\ UNCHANGED authPromiseResolver
           ELSE /\ promise' = [promise EXCEPT ![p] = [status |-> "pending", registered |-> authPromiseResolver = 0]]
                /\ authPromiseResolver' = IF authPromiseResolver = 0 THEN p ELSE authPromiseResolver
        /\ UNCHANGED <<sessionVars, mirrorVars, signInVars, signOutAndRedirectVars, pusherVars, routeVars>>

\* waitForUserSignIn(), lines 958-966; the promise returned is the first unused one
WaitForUserSignIn ==
    \E p \in Waiters :
        /\ promise[p].status = "unused"
        /\ \A q \in Waiters : q < p => promise[q].status # "unused"
        /\ IF Truthy(sessionAuthToken)
           THEN /\ promise' = [promise EXCEPT ![p].status = "fulfilled_true"]
                /\ UNCHANGED authPromiseResolver
           ELSE /\ promise' = [promise EXCEPT ![p] = [status |-> "pending", registered |-> TRUE]]
                /\ authPromiseResolver' = p
        /\ UNCHANGED <<sessionVars, mirrorVars, signInVars, signOutAndRedirectVars, pusherVars, routeVars>>

\* invalidateAuthToken(), lines 646-649
InvalidateAuthToken ==
    /\ networkAuthToken' = "pizza"
    /\ WriteSession(Merge(session, [authToken |-> "pizza"]))
    /\ UNCHANGED <<sessionAuthTokenType, sessionAuthToken, waiterVars, signInVars, signOutAndRedirectVars, pusherVars, routeVars>>

\* mutant of SetSupportAuthToken: the support session replaces the stored session
\* (Onyx.set) instead of being merged into it
SetSupportAuthToken_SetsInsteadOfMerges(supportAuthToken, email, accountID) ==
    /\ IF Truthy(supportAuthToken)
       THEN WriteSession(Merge(EmptySession, [authToken |-> "1", supportAuthToken |-> supportAuthToken,
                                              email |-> email, accountID |-> accountID]))
       ELSE WriteSession(EmptySession)
    /\ UNCHANGED <<mirrorVars, waiterVars, signInVars, signOutAndRedirectVars, pusherVars, routeVars>>

\* setSupportAuthToken(supportAuthToken, email, accountID), lines 654-666
SetSupportAuthToken(supportAuthToken, email, accountID) ==
    /\ IF Truthy(supportAuthToken)
       THEN WriteSession(Merge(session, [authToken |-> "1", supportAuthToken |-> supportAuthToken,
                                         email |-> email, accountID |-> accountID]))
       ELSE WriteSession(EmptySession)
    /\ UNCHANGED <<mirrorVars, waiterVars, signInVars, signOutAndRedirectVars, pusherVars, routeVars>>

\* a write to the CREDENTIALS key
WriteCredentials(c) ==
    /\ credentialsStore' = c
    /\ credentialsPending' = TRUE

\* Onyx.connect({key: CREDENTIALS, callback}), lines 139-143
CredentialsCallback ==
    /\ credentialsPending
    /\ credentialsPending' = FALSE
    /\ credentials' = credentialsStore
    /\ UNCHANGED <<sessionVars, mirrorVars, waiterVars, credentialsStore, preferredLocale, account, flows, signOutAndRedirectVars, pusherVars, routeVars>>

\* Onyx.connect({key: NVP_PREFERRED_LOCALE, callback}), lines 145-149
PreferredLocaleCallback(val) ==
    /\ preferredLocale # val
    /\ preferredLocale' = val
    /\ UNCHANGED <<sessionVars, mirrorVars, waiterVars, credentialsVars, credentials, account, flows, signOutAndRedirectVars, pusherVars, routeVars>>

\* the flow a new call runs in: the first idle one
FirstIdle(f) ==
    /\ flows[f].pc = "idle"
    /\ \A g \in DOMAIN flows : g < f => flows[g].pc # "idle"

\* mutant of SignInWithValidateCode: the validate code is the caller's, also from
\* the two-factor step
SignInWithValidateCode_UsesCallerCode(f, accountID, code, twoFactorAuthCode) ==
    /\ FirstIdle(f)
    /\ flows' = [flows EXCEPT ![f] =
            [IdleFlow EXCEPT !.pc = "device", !.op = "signInWithValidateCode",
                             !.accountID = accountID, !.code = code, !.validateCode = code,
                             !.twoFactorAuthCode = twoFactorAuthCode]]
    /\ UNCHANGED <<sessionVars, mirrorVars, waiterVars, credentialsVars, credentials, preferredLocale, account, signOutAndRedirectVars, pusherVars, routeVars>>

\* signInWithValidateCode(accountID, code, twoFactorAuthCode), lines 539-600: the
\* synchronous part, up to the call of Device.getDeviceInfoWithID()
SignInWithValidateCode(f, accountID, code, twoFactorAuthCode) ==
    /\ FirstIdle(f)
    /\ flows' = [flows EXCEPT ![f] =
            [IdleFlow EXCEPT !.pc = "device", !.op = "signInWithValidateCode",
                             !.accountID = accountID, !.code = code,
                             !.validateCode = IF Truthy(twoFactorAuthCode)
                                              THEN credentials.validateCode ELSE code,
                             !.twoFactorAuthCode = twoFactorAuthCode]]
    /\ UNCHANGED <<sessionVars, mirrorVars, waiterVars, credentialsVars, credentials, preferredLocale, account, signOutAndRedirectVars, pusherVars, routeVars>>

\* lines 600-618: device identity has resolved; API.write applies optimisticData
\* (lines 544-559) and issues SigninUserWithLink
SignInWithValidateCodeIssue(f) ==
    /\ flows[f].pc = "device"
    /\ flows[f].op = "signInWithValidateCode"
    /\ flows' = [flows EXCEPT ![f].pc = "inflight", ![f].locale = preferredLocale]
    /\ account' = Merge(account,
            [errors |-> DEFAULT_ACCOUNT_DATA.errors, success |-> DEFAULT_ACCOUNT_DATA.success,
             isLoading |-> "true",
             loadingForm |-> IF Truthy(flows[f].twoFactorAuthCode)
                             THEN VALIDATE_TFA_CODE_FORM ELSE VALIDATE_CODE_FORM])
    /\ WriteSession(Merge(session, [autoAuthState |-> SIGNING_IN]))
    /\ UNCHANGED <<mirrorVars, waiterVars, credentialsVars, credentials, preferredLocale, signOutAndRedirectVars, pusherVars, routeVars>>

\* the session data a successful sign-in response carries: the new auth token, or
\* nothing when the backend asks for a further step
ResponseSessionData == {[authToken |-> "tok", authTokenType |-> NULL], [authToken |-> NULL]}

\* mutant of SignInWithValidateCodeSuccess: the failure list is applied to a success
SignInWithValidateCodeSuccess_AppliesFailureData(f, response) ==
    /\ flows[f].pc = "inflight"
    /\ flows[f].op = "signInWithValidateCode"
    /\ flows' = [flows EXCEPT ![f] = [IdleFlow EXCEPT !.pc = "succeeded"]]
    /\ account' = Merge(account, [isLoading |-> "false", loadingForm |-> NULL])
    /\ WriteSession(Merge(Merge(session, IF Truthy(response.authToken) THEN response ELSE [x \in {} |-> NULL]),
                          [autoAuthState |-> FAILED]))
    /\ UNCHANGED <<mirrorVars, waiterVars, credentialsVars, credentials, preferredLocale, signOutAndRedirectVars, pusherVars, routeVars>>

\* SigninUserWithLink succeeds: the response's own data and successData (lines 561-583)
SignInWithValidateCodeSuccess(f, response) ==
    /\ flows[f].pc = "inflight"
    /\ flows[f].op = "signInWithValidateCode"
    /\ flows' = [flows EXCEPT ![f] = [IdleFlow EXCEPT !.pc = "succeeded"]]
    /\ account' = Merge(account, [isLoading |-> "false", loadingForm |-> NULL])
    /\ WriteCredentials(Merge(credentialsStore,
            [accountID |-> flows[f].accountID, validateCode |-> flows[f].validateCode]))
    /\ WriteSession(Merge(Merge(session, IF Truthy(response.authToken) THEN response ELSE [x \in {} |-> NULL]),
                          [autoAuthState |-> JUST_SIGNED_IN]))
    /\ UNCHANGED <<mirrorVars, waiterVars, credentials, preferredLocale, signOutAndRedirectVars, pusherVars, routeVars>>

\* mutant of SignInWithValidateCodeFailure: the failure list holds the Account patch only
SignInWithValidateCodeFailure_NoSessionPatch(f) ==
    /\ flows[f].pc = "inflight"
    /\ flows[f].op = "signInWithValidateCode"
    /\ flows' = [flows EXCEPT ![f] = [IdleFlow EXCEPT !.pc = "failed"]]
    /\ account' = Merge(account, [isLoading |-> "false", loadingForm |-> NULL])
    /\ UNCHANGED <<sessionVars, mirrorVars, waiterVars, credentialsVars, credentials, preferredLocale, signOutAndRedirectVars, pusherVars, routeVars>>

\* SigninUserWithLink fails: failureData (lines 585-599)
SignInWithValidateCodeFailure(f) ==
    /\ flows[f].pc = "inflight"
    /\ flows[f].op = "signInWithValidateCode"
    /\ flows' = [flows EXCEPT ![f] = [IdleFlow EXCEPT !.pc = "failed"]]
    /\ account' = Merge(account, [isLoading |-> "false", loadingForm |-> NULL])
    /\ WriteSession(Merge(session, [autoAuthState |-> FAILED]))
    /\ UNCHANGED <<mirrorVars, waiterVars, credentialsVars, credentials, preferredLocale, signOutAndRedirectVars, pusherVars, routeVars>>

\* ---------------------------------------------------- command-issuing flows
\* an update list is kept as one patch for each key; NoPatch: the list holds no
\* update of the key
NoPatch == [x \in {} |-> NULL]

Updates(accountPatch, credentialsPatch, sessionPatch) ==
    [account |-> accountPatch, credentials |-> credentialsPatch, session |-> sessionPatch]

\* ErrorUtils.getMicroSecondOnyxError(key): the error object, named by its message
CANNOT_GET_ACCOUNT_DETAILS == "loginForm.cannotGetAccountDetails"

\* resendValidationLink, lines 224-257
ResendValidationLinkData ==
    [optimisticData |-> Updates([isLoading |-> "true", errors |-> NULL, message |-> NULL,
                                 loadingForm |-> RESEND_VALIDATION_FORM], NoPatch, NoPatch),
     successData |-> Updates([isLoading |-> "false", message |-> "resendValidationForm.linkHasBeenResent",
                              loadingForm |-> NULL], NoPatch, NoPatch),
     failureData |-> Updates([isLoading |-> "false", message |-> NULL, loadingForm |-> NULL],
                             NoPatch, NoPatch)]

\* resendValidateCode, lines 272-299
ResendValidateCodeData ==
    [optimisticData |-> Updates([errors |-> NULL, loadingForm |-> RESEND_VALIDATE_CODE_FORM],
                                NoPatch, NoPatch),
     successData |-> Updates([loadingForm |-> NULL], NoPatch, NoPatch),
     failureData |-> Updates([loadingForm |-> NULL], NoPatch, NoPatch)]

\* mutant of SignInAttemptState: the failure list clears the validate code too
SignInAttemptState_FailureClearsValidateCode ==
    [optimisticData |-> Updates([errors |-> DEFAULT_ACCOUNT_DATA.errors, success |-> DEFAULT_ACCOUNT_DATA.success,
                                 isLoading |-> "true", message |-> NULL, loadingForm |-> LOGIN_FORM],
                                NoPatch, NoPatch),
     successData |-> Updates([isLoading |-> "false", loadingForm |-> NULL],
                             [validateCode |-> NULL], NoPatch),
     failureData |-> Updates([isLoading |-> "false", loadingForm |-> NULL,
                              errors |-> CANNOT_GET_ACCOUNT_DETAILS],
                             [validateCode |-> NULL], NoPatch)]

\* signInAttemptState(), lines 319-362
SignInAttemptState ==
    [optimisticData |-> Updates([errors |-> DEFAULT_ACCOUNT_DATA.errors, success |-> DEFAULT_ACCOUNT_DATA.success,
                                 isLoading |-> "true", message |-> NULL, loadingForm |-> LOGIN_FORM],
                                NoPatch, NoPatch),
     successData |-> Updates([isLoading |-> "false", loadingForm |-> NULL],
                             [validateCode |-> NULL], NoPatch),
     failureData |-> Updates([isLoading |-> "false", loadingForm |-> NULL,
                              errors |-> CANNOT_GET_ACCOUNT_DETAILS],
                             NoPatch, NoPatch)]

\* signInWithShortLivedAuthToken, lines 418-447
SignInWithShortLivedAuthTokenData ==
    [optimisticData |-> Updates([errors |-> DEFAULT_ACCOUNT_DATA.errors, success |-> DEFAULT_ACCOUNT_DATA.success,
                                 isLoading |-> "true"], NoPatch, NoPatch),
     successData |-> Updates([isLoading |-> "false"], NoPatch, NoPatch),
     failureData |-> Updates([isLoading |-> "false"], NoPatch, NoPatch)]

\* signIn, lines 473-512
SignInData(validateCode, twoFactorAuthCode) ==
    [optimisticData |-> Updates([errors |-> DEFAULT_ACCOUNT_DATA.errors, success |-> DEFAULT_ACCOUNT_DATA.success,
                                 isLoading |-> "true",
                                 loadingForm |-> IF Truthy(twoFactorAuthCode)
                                                 THEN VALIDATE_TFA_CODE_FORM ELSE VALIDATE_CODE_FORM],
                                NoPatch, NoPatch),
     successData |-> Updates([isLoading |-> "false", loadingForm |-> NULL],
                             [validateCode |-> validateCode], NoPatch),
     failureData |-> Updates([isLoading |-> "false", loadingForm |-> NULL], NoPatch, NoPatch)]

\* signInWithValidateCode, lines 544-599
SignInWithValidateCodeData(accountID, validateCode, twoFactorAuthCode) ==
    [optimisticData |-> Updates([errors |-> DEFAULT_ACCOUNT_DATA.errors, success |-> DEFAULT_ACCOUNT_DATA.success,
                                 isLoading |-> "true",
                                 loadingForm |-> IF Truthy(twoFactorAuthCode)
                                                 THEN VALIDATE_TFA_CODE_FORM ELSE VALIDATE_CODE_FORM],
                                NoPatch, [autoAuthState |-> SIGNING_IN]),
     successData |-> Updates([isLoading |-> "false", loadingForm |-> NULL],
                             [accountID |-> accountID, validateCode |-> validateCode],
                             [autoAuthState |-> JUST_SIGNED_IN]),
     failureData |-> Updates([isLoading |-> "false", loadingForm |-> NULL], NoPatch,
                             [autoAuthState |-> FAILED])]

\* requestUnlinkValidationLink, lines 770-802
RequestUnlinkValidationLinkData ==
    [optimisticData |-> Updates([isLoading |-> "true", errors |-> NULL, message |-> NULL,
                                 loadingForm |-> UNLINK_LOGIN_FORM], NoPatch, NoPatch),
     successData |-> Updates([isLoading |-> "false", message |-> "unlinkLoginForm.linkSent",
                              loadingForm |-> NULL], NoPatch, NoPatch),
     failureData |-> Updates([isLoading |-> "false", loadingForm |-> NULL], NoPatch, NoPatch)]

\* mutant of UnlinkLoginData: the failure list leaves the loading flag alone
UnlinkLoginData_FailureKeepsLoading ==
    [optimisticData |-> Updates([errors |-> DEFAULT_ACCOUNT_DATA.errors, success |-> DEFAULT_ACCOUNT_DATA.success,
                                 isLoading |-> "true"], NoPatch, NoPatch),
     successData |-> Updates([isLoading |-> "false", message |-> "unlinkLoginForm.succesfullyUnlinkedLogin"],
                             [login |-> ""], NoPatch),
     failureData |-> Updates([errors |-> NULL], NoPatch, NoPatch)]

\* unlinkLogin, lines 814-849
UnlinkLoginData ==
    [optimisticData |-> Updates([errors |-> DEFAULT_ACCOUNT_DATA.errors, success |-> DEFAULT_ACCOUNT_DATA.success,
                                 isLoading |-> "true"], NoPatch, NoPatch),
     successData |-> Updates([isLoading |-> "false", message |-> "unlinkLoginForm.succesfullyUnlinkedLogin"],
                             [login |-> ""], NoPatch),
     failureData |-> Updates([isLoading |-> "false"], NoPatch, NoPatch)]

\* toggleTwoFactorAuth, lines 872-900
ToggleTwoFactorAuthData ==
    [optimisticData |-> Updates([isLoading |-> "true"], NoPatch, NoPatch),
     successData |-> Updates([isLoading |-> "false"], NoPatch, NoPatch),
     failureData |-> Updates([isLoading |-> "false"], NoPatch, NoPatch)]

\* validateTwoFactorAuth, lines 906-934
ValidateTwoFactorAuthData ==
    [optimisticData |-> Updates([isLoading |-> "true"], NoPatch, NoPatch),
     successData |-> Updates([isLoading |-> "false"], NoPatch, NoPatch),
     failureData |-> Updates([isLoading |-> "false"], NoPatch, NoPatch)]

\* the operations whose settlement CommandSucceeds and CommandFails model
CommandOps ==
    {"resendValidationLink", "resendValidateCode", "beginSignIn", "beginAppleSignIn",
     "beginGoogleSignIn", "signInWithShortLivedAuthToken", "signIn",
     "requestUnlinkValidationLink", "unlinkLogin", "toggleTwoFactorAuth", "validateTwoFactorAuth"}

\* the operations whose successful response carries the session of the user signed in
SignInOps == {"beginAppleSignIn", "beginGoogleSignIn", "signInWithShortLivedAuthToken", "signIn"}

\* the three lists the call of flow fl handed to API.write or API.read
FlowData(fl) ==
    CASE fl.op = "resendValidationLink" -> ResendValidationLinkData
      [] fl.op = "resendValidateCode" -> ResendValidateCodeData
      [] fl.op \in {"beginSignIn", "beginAppleSignIn", "beginGoogleSignIn"} -> SignInAttemptState
      [] fl.op = "signInWithShortLivedAuthToken" -> SignInWithShortLivedAuthTokenData
      [] fl.op = "signIn" -> SignInData(fl.code, fl.twoFactorAuthCode)
      [] fl.op = "signInWithValidateCode" ->
             SignInWithValidateCodeData(fl.accountID, fl.validateCode, fl.twoFactorAuthCode)
      [] fl.op = "requestUnlinkValidationLink" -> RequestUnlinkValidationLinkData
      [] fl.op = "unlinkLogin" -> UnlinkLoginData
      [] fl.op = "toggleTwoFactorAuth" -> ToggleTwoFactorAuthData
      [] fl.op = "validateTwoFactorAuth" -> ValidateTwoFactorAuthData

\* Onyx.update(updates): every patch of the list is merged into its key
ApplyUpdates(updates) ==
    /\ account' = Merge(account, updates.account)
    /\ IF DOMAIN updates.credentials = {}
       THEN UNCHANGED credentialsVars
       ELSE WriteCredentials(Merge(credentialsStore, updates.credentials))
    /\ IF DOMAIN updates.session = {}
       THEN UNCHANGED sessionVars
       ELSE WriteSession(Merge(session, updates.session))

\* API.write(command, params, onyxData) and API.read: the optimistic list is
\* applied, then the command is issued, once; fl holds the parameters
ApiWrite(f, fl, onyxData) ==
    /\ flows' = [flows EXCEPT ![f] = [fl EXCEPT !.pc = "inflight"]]
    /\ ApplyUpdates(onyxData.optimisticData)
    /\ UNCHANGED <<mirrorVars, waiterVars, credentials, preferredLocale, signOutAndRedirectVars, pusherVars, routeVars>>

\* resendValidationLink(login = credentials.login), lines 223-266
ResendValidationLink(f, login) ==
    /\ FirstIdle(f)
    /\ ApiWrite(f, [IdleFlow EXCEPT !.op = "resendValidationLink", !.email = login],
                ResendValidationLinkData)

\* resendValidateCode(login = credentials.login), lines 271-308
ResendValidateCode(f, login) ==
    /\ FirstIdle(f)
    /\ ApiWrite(f, [IdleFlow EXCEPT !.op = "resendValidateCode", !.email = login],
                ResendValidateCodeData)

\* beginSignIn(email), lines 367-377
BeginSignIn(f, email) ==
    /\ FirstIdle(f)
    /\ ApiWrite(f, [IdleFlow EXCEPT !.op = "beginSignIn", !.email = email], SignInAttemptState)

\* beginAppleSignIn(idToken), lines 383-394
BeginAppleSignIn(f, idToken) ==
    /\ FirstIdle(f)
    /\ ApiWrite(f, [IdleFlow EXCEPT !.op = "beginAppleSignIn", !.token = idToken,
                                    !.locale = preferredLocale],
                SignInAttemptState)

\* beginGoogleSignIn(token), lines 400-411
BeginGoogleSignIn(f, token) ==
    /\ FirstIdle(f)
    /\ ApiWrite(f, [IdleFlow EXCEPT !.op = "beginGoogleSignIn", !.token = token,
                                    !.locale = preferredLocale],
                SignInAttemptState)

\* signInWithShortLivedAuthToken(email, authToken), lines 417-463; email holds
\* oldPartnerUserID, the parameter the call computes from the credentials
SignInWithShortLivedAuthToken(f, email, authToken) ==
    /\ FirstIdle(f)
    /\ ApiWrite(f, [IdleFlow EXCEPT !.op = "signInWithShortLivedAuthToken", !.token = authToken,
                                    !.email = IF credentials.login = email /\ Truthy(credentials.autoGeneratedLogin)
                                              THEN credentials.autoGeneratedLogin ELSE ""],
                SignInWithShortLivedAuthTokenData)

\* mutant of SignIn: the loading patch is applied by the call, before device
\* identity has resolved
SignIn_LoadingAtCall(f, validateCode, twoFactorAuthCode) ==
    /\ FirstIdle(f)
    /\ flows' = [flows EXCEPT ![f] =
            [IdleFlow EXCEPT !.pc = "device", !.op = "signIn", !.code = validateCode,
                             !.twoFactorAuthCode = twoFactorAuthCode]]
    /\ account' = Merge(account, [isLoading |-> "true"])
    /\ UNCHANGED <<sessionVars, mirrorVars, waiterVars, credentialsVars, credentials, preferredLocale, signOutAndRedirectVars, pusherVars, routeVars>>

\* mutant of SignIn: a new sign-in supersedes the commands in flight, whose
\* responses are then dropped
SignIn_CancelsEarlierFlows(f, validateCode, twoFactorAuthCode) ==
    /\ FirstIdle(f)
    /\ flows' = [g \in DOMAIN flows |->
            IF g = f
            THEN [IdleFlow EXCEPT !.pc = "device", !.op = "signIn", !.code = validateCode,
                                  !.twoFactorAuthCode = twoFactorAuthCode]
            ELSE IF flows[g].pc = "inflight"
                 THEN [IdleFlow EXCEPT !.pc = "failed"]
                 ELSE flows[g]]
    /\ UNCHANGED <<sessionVars, mirrorVars, waiterVars, credentialsVars, credentials, preferredLocale, account, signOutAndRedirectVars, pusherVars, routeVars>>

\* signIn(validateCode, twoFactorAuthCode), lines 472-514: the synchronous part, up
\* to the call of Device.getDeviceInfoWithID()
SignIn(f, validateCode, twoFactorAuthCode) ==
    /\ FirstIdle(f)
    /\ flows' = [flows EXCEPT ![f] =
            [IdleFlow EXCEPT !.pc = "device", !.op = "signIn", !.code = validateCode,
                             !.twoFactorAuthCode = twoFactorAuthCode]]
    /\ UNCHANGED <<sessionVars, mirrorVars, waiterVars, credentialsVars, credentials, preferredLocale, account, signOutAndRedirectVars, pusherVars, routeVars>>

\* lines 514-536: device identity has resolved; the parameters are built from the
\* credentials and the locale as they are now, and SigninUser is issued
SignInIssue(f) ==
    /\ flows[f].pc = "device"
    /\ flows[f].op = "signIn"
    /\ ApiWrite(f, [flows[f] EXCEPT !.email = credentials.login,
                                    !.locale = preferredLocale,
                                    !.validateCode =
                                        IF Truthy(flows[f].code) \/ Truthy(flows[f].twoFactorAuthCode)
                                        THEN IF Truthy(flows[f].code) THEN flows[f].code
                                             ELSE credentials.validateCode
                                        ELSE NULL],
                SignInData(flows[f].code, flows[f].twoFactorAuthCode))

\* requestUnlinkValidationLink(), lines 769-811
RequestUnlinkValidationLink(f) ==
    /\ FirstIdle(f)
    /\ ApiWrite(f, [IdleFlow EXCEPT !.op = "requestUnlinkValidationLink", !.email = credentials.login],
                RequestUnlinkValidationLinkData)

\* unlinkLogin(accountID, validateCode), lines 813-866
UnlinkLogin(f, accountID, validateCode) ==
    /\ FirstIdle(f)
    /\ ApiWrite(f, [IdleFlow EXCEPT !.op = "unlinkLogin", !.accountID = accountID,
                                    !.validateCode = validateCode],
                UnlinkLoginData)

\* mutant of ToggleTwoFactorAuth: the command is issued without an optimistic list
ToggleTwoFactorAuth_NoOptimisticData(f, enable) ==
    /\ FirstIdle(f)
    /\ ApiWrite(f, [IdleFlow EXCEPT !.op = "toggleTwoFactorAuth", !.enable = enable],
                [ToggleTwoFactorAuthData EXCEPT !.optimisticData = Updates(NoPatch, NoPatch, NoPatch)])

\* toggleTwoFactorAuth(enable), lines 871-903
ToggleTwoFactorAuth(f, enable) ==
    /\ FirstIdle(f)
    /\ ApiWrite(f, [IdleFlow EXCEPT !.op = "toggleTwoFactorAuth", !.enable = enable],
                ToggleTwoFactorAuthData)

\* validateTwoFactorAuth(twoFactorAuthCode), lines 905-943
ValidateTwoFactorAuth(f, twoFactorAuthCode) ==
    /\ FirstIdle(f)
    /\ ApiWrite(f, [IdleFlow EXCEPT !.op = "validateTwoFactorAuth", !.twoFactorAuthCode = twoFactorAuthCode],
                ValidateTwoFactorAuthData)

\* the command of flow f succeeds: the session data of the response (of a sign-in),
\* then the success list
CommandSucceeds(f, response) ==
    /\ flows[f].pc = "inflight"
    /\ flows[f].op \in CommandOps
    /\ Truthy(response.authToken) => flows[f].op \in SignInOps
    /\ flows' = [flows EXCEPT ![f] = [IdleFlow EXCEPT !.pc = "succeeded"]]
    /\ account' = Merge(account, FlowData(flows[f]).successData.account)
    /\ IF DOMAIN FlowData(flows[f]).successData.credentials = {}
       THEN UNCHANGED credentialsVars
       ELSE WriteCredentials(Merge(credentialsStore, FlowData(flows[f]).successData.credentials))
    /\ IF Truthy(response.authToken)
       THEN WriteSession(Merge(session, response))
       ELSE UNCHANGED sessionVars
    /\ UNCHANGED <<mirrorVars, waiterVars, credentials, preferredLocale, signOutAndRedirectVars, pusherVars, routeVars>>

\* the command of flow f fails: the failure list
CommandFails(f) ==
    /\ flows[f].pc = "inflight"
    /\ flows[f].op \in CommandOps
    /\ flows' = [flows EXCEPT ![f] = [IdleFlow EXCEPT !.pc = "failed"]]
    /\ ApplyUpdates(FlowData(flows[f]).failureData)
    /\ UNCHANGED <<mirrorVars, waiterVars, credentials, preferredLocale, signOutAndRedirectVars, pusherVars, routeVars>>

\* mutant of ClearSignInData: only the Account key is nulled by the call
ClearSignInData_AccountOnly ==
    /\ account' = EmptyAccount
    /\ UNCHANGED <<sessionVars, mirrorVars, waiterVars, credentialsVars, credentials, preferredLocale, flows, signOutAndRedirectVars, pusherVars, routeVars>>

\* clearSignInData(), lines 671-676: Onyx.multiSet of null to ACCOUNT and CREDENTIALS
ClearSignInData ==
    /\ account' = EmptyAccount
    /\ WriteCredentials(EmptyCredentials)
    /\ UNCHANGED <<sessionVars, mirrorVars, waiterVars, credentials, preferredLocale, flows, signOutAndRedirectVars, pusherVars, routeVars>>

\* Device.getDeviceInfoWithID() rejects, lines 514 and 600: the then-handler does
\* not run and the promise it returned is rejected with no handler attached; the
\* flow ends without a patch and without a command
DeviceInfoRejects(f) ==
    /\ flows[f].pc = "device"
    /\ flows' = [flows EXCEPT ![f] = [IdleFlow EXCEPT !.pc = "unhandledRejection"]]
    /\ UNCHANGED <<sessionVars, mirrorVars, waiterVars, credentialsVars, credentials, preferredLocale, account, signOutAndRedirectVars, pusherVars, routeVars>>

AutoAuthStates == {NOT_STARTED, SIGNING_IN, JUST_SIGNED_IN, FAILED}

\* mutant of AutoAuthStateAfterInit: only JUST_SIGNED_IN counts as a signed-in state
AutoAuthStateAfterInit_OnlyJustSignedIn(cachedAutoAuthState) ==
    IF cachedAutoAuthState = JUST_SIGNED_IN THEN JUST_SIGNED_IN ELSE NOT_STARTED

\* lines 635 and 638: signedInStates.includes(cachedAutoAuthState) ? JUST_SIGNED_IN : NOT_STARTED
AutoAuthStateAfterInit(cachedAutoAuthState) ==
    IF cachedAutoAuthState \in {SIGNING_IN, JUST_SIGNED_IN} THEN JUST_SIGNED_IN ELSE NOT_STARTED

\* initAutoAuthState(cachedAutoAuthState), lines 634-640
InitAutoAuthState(cachedAutoAuthState) ==
    /\ WriteSession(Merge(session, [autoAuthState |-> AutoAuthStateAfterInit(cachedAutoAuthState)]))
    /\ UNCHANGED <<mirrorVars, waiterVars, signInVars, signOutAndRedirectVars, pusherVars, routeVars>>

\* the state the mounting page hands to initAutoAuthState: the one it reads from
\* the session, NOT_STARTED when the session holds none
CachedAutoAuthState == IF session.autoAuthState = NULL THEN NOT_STARTED ELSE session.autoAuthState

\* the page is mounted and calls initAutoAuthState
InitAutoAuthStateOnMount == InitAutoAuthState(CachedAutoAuthState)

\* mutant of SignOutBody: the cache and the timing data are cleared only once the
\* LogOut command has settled, not by the call
SignOutBody_ClearsAfterLogOut ==
    /\ Len(logOutCommands) < MaxSignOuts
    /\ logOutCommands' = Append(logOutCommands,
            [authToken |-> networkAuthToken,
             partnerUserID |-> IF credentials.autoGeneratedLogin = NULL
                               THEN "" ELSE credentials.autoGeneratedLogin,
             shouldRetry |-> FALSE,
             status |-> "inflight"])
    /\ UNCHANGED <<cacheClearsStarted, timingClears, cacheClearsDone>>

\* mutant of SignOutBody: the parameters are built once the session is gone, so
\* the command carries no token
SignOutBody_TokenReadAfterClear ==
    /\ Len(logOutCommands) < MaxSignOuts
    /\ logOutCommands' = Append(logOutCommands,
            [authToken |-> NULL,
             partnerUserID |-> IF credentials.autoGeneratedLogin = NULL
                               THEN "" ELSE credentials.autoGeneratedLogin,
             shouldRetry |-> FALSE,
             status |-> "inflight"])
    /\ cacheClearsStarted' = cacheClearsStarted + 1
    /\ timingClears' = timingClears + 1
    /\ UNCHANGED cacheClearsDone

\* the body of signOut(), lines 154-179: the LogOut command is issued through
\* API.write, the cache clear is started, the timing data is cleared
SignOutBody ==
    /\ Len(logOutCommands) < MaxSignOuts
    /\ logOutCommands' = Append(logOutCommands,
            [authToken |-> networkAuthToken,
             partnerUserID |-> IF credentials.autoGeneratedLogin = NULL
                               THEN "" ELSE credentials.autoGeneratedLogin,
             shouldRetry |-> FALSE,
             status |-> "inflight"])
    /\ cacheClearsStarted' = cacheClearsStarted + 1
    /\ timingClears' = timingClears + 1
    /\ UNCHANGED cacheClearsDone

\* signOut() called by itself
SignOut ==
    /\ SignOutBody
    /\ UNCHANGED <<pusherVars, coreVars, gateVars, redirectVars, routeVars>>

\* the LogOut command settles: success, or failure; a command that never settles
\* stays "inflight"
LogOutSettles(i, outcome) ==
    /\ i \in 1..Len(logOutCommands)
    /\ logOutCommands[i].status = "inflight"
    /\ logOutCommands' = [logOutCommands EXCEPT ![i].status = outcome]
    /\ UNCHANGED <<pusherVars, coreVars, gateVars, redirectVars, cacheClearsStarted, cacheClearsDone, timingClears, routeVars>>

\* clearCache() resolves, lines 175-177
ClearCacheResolves ==
    /\ cacheClearsDone < cacheClearsStarted
    /\ cacheClearsDone' = cacheClearsDone + 1
    /\ UNCHANGED <<pusherVars, coreVars, gateVars, redirectVars, logOutCommands, cacheClearsStarted, timingClears, routeVars>>

\* isAnonymousUser(), lines 184-186
IsAnonymousUser == sessionAuthTokenType = ANONYMOUS_ACCOUNT

\* mutant of SignOutAndRedirectToSignInBody: the anonymous user is signed out like
\* any other
SignOutAndRedirectToSignInBody_AlwaysSignsOut ==
    /\ SignOutBody
    /\ activeRoute' = SIGN_IN_PAGE
    /\ UNCHANGED <<initialURL, initialURLLookups, lastOpenedPublicRoomID>>

\* the body of signOutAndRedirectToSignIn(), lines 188-206; redirectToSignIn() shows
\* the sign-in page
SignOutAndRedirectToSignInBody ==
    IF ~IsAnonymousUser
    THEN /\ SignOutBody
         /\ activeRoute' = SIGN_IN_PAGE
         /\ UNCHANGED <<initialURL, initialURLLookups, lastOpenedPublicRoomID>>
    ELSE IF activeRoute = SIGN_IN_MODAL
         THEN UNCHANGED <<signOutVars, redirectVars>>
         ELSE /\ initialURLLookups < MaxLookups
              /\ activeRoute' = SIGN_IN_MODAL
              /\ initialURLLookups' = initialURLLookups + 1
              /\ UNCHANGED <<signOutVars, initialURL, lastOpenedPublicRoomID>>

\* signOutAndRedirectToSignIn() called by itself
SignOutAndRedirectToSignIn ==
    /\ SignOutAndRedirectToSignInBody
    /\ UNCHANGED <<pusherVars, coreVars, gateVars, routeVars>>

\* Linking.getInitialURL() resolves, lines 199-204
InitialURLResolves ==
    /\ initialURLLookups > 0
    /\ initialURLLookups' = initialURLLookups - 1
    /\ IF Truthy(GetReportIDFromLink(initialURL))
       THEN lastOpenedPublicRoomID' = GetReportIDFromLink(initialURL)
       ELSE UNCHANGED lastOpenedPublicRoomID
    /\ UNCHANGED <<pusherVars, coreVars, gateVars, signOutVars, activeRoute, initialURL, routeVars>>

\* the user moves to another screen
Navigate(route) ==
    /\ activeRoute # route
    /\ activeRoute' = route
    /\ UNCHANGED <<pusherVars, coreVars, gateVars, signOutVars, initialURL, initialURLLookups, lastOpenedPublicRoomID, routeVars>>

\* mutant of CheckIfActionIsAllowed: isAnonymousAction is ignored
CheckIfActionIsAllowed_IgnoresAnonymousAction(isAnonymousAction) ==
    /\ heldAction' = IF IsAnonymousUser THEN "replacement" ELSE "callback"
    /\ UNCHANGED <<pusherVars, coreVars, callbackCalls, signOutVars, redirectVars, routeVars>>

\* checkIfActionIsAllowed(callback, isAnonymousAction), lines 213-218; the caller
\* keeps the function returned
CheckIfActionIsAllowed(isAnonymousAction) ==
    /\ heldAction' = IF IsAnonymousUser /\ ~isAnonymousAction THEN "replacement" ELSE "callback"
    /\ UNCHANGED <<pusherVars, coreVars, callbackCalls, signOutVars, redirectVars, routeVars>>

\* the caller invokes the function checkIfActionIsAllowed returned: the callback
\* itself, or () => signOutAndRedirectToSignIn() (line 215)
InvokeHeldAction ==
    \/ /\ heldAction = "callback"
       /\ callbackCalls < MaxCallbackCalls
       /\ callbackCalls' = callbackCalls + 1
       /\ UNCHANGED <<pusherVars, coreVars, heldAction, signOutVars, redirectVars, routeVars>>
    \/ /\ heldAction = "replacement"
       /\ SignOutAndRedirectToSignInBody
       /\ UNCHANGED <<pusherVars, coreVars, gateVars, routeVars>>

\* the options of the throttle, line 714: no call on the trailing edge; lodash
\* calls on the leading edge, and on the trailing edge too when the option is left out
ThrottleTrailing_Default == TRUE

ThrottleTrailing == FALSE

\* lodash debounce, shouldInvoke(time), with maxWait = wait as throttle sets it
ShouldInvoke(time) ==
    \/ throttle.lastCallTime = -1
    \/ time - throttle.lastCallTime >= ThrottleWait
    \/ time - throttle.lastCallTime < 0
    \/ time - throttle.lastInvokeTime >= ThrottleWait

\* lodash debounce, remainingWait(time)
RemainingWait(time) ==
    IF ThrottleWait - (time - throttle.lastCallTime) < ThrottleWait - (time - throttle.lastInvokeTime)
    THEN ThrottleWait - (time - throttle.lastCallTime)
    ELSE ThrottleWait - (time - throttle.lastInvokeTime)

\* the throttled body, lines 705-712: Authentication.reauthenticate() is started
ReauthenticateBody ==
    /\ reauthExecutions' = Append(reauthExecutions, now)
    /\ reauthInFlight' = reauthInFlight + 1

\* mutant of ReauthenticatePusherCall: the body runs on every call
ReauthenticatePusherCall_Unthrottled ==
    /\ Len(reauthTriggers) < MaxTriggers
    /\ reauthTriggers' = Append(reauthTriggers, now)
    /\ throttle' = [throttle EXCEPT !.lastCallTime = now, !.lastInvokeTime = now]
    /\ ReauthenticateBody

\* a call of reauthenticatePusher, lines 704-715: lodash's debounced(), which runs
\* the body on the leading edge and starts the timer
ReauthenticatePusherCall ==
    /\ Len(reauthTriggers) < MaxTriggers
    /\ reauthTriggers' = Append(reauthTriggers, now)
    /\ IF ShouldInvoke(now)
       THEN /\ throttle' = [lastCallTime |-> now, lastInvokeTime |-> now,
                             timerId |-> now + ThrottleWait, lastArgs |-> FALSE]
            /\ ReauthenticateBody
       ELSE /\ throttle' = [throttle EXCEPT !.lastCallTime = now, !.lastArgs = TRUE,
                                            !.timerId = IF @ = -1 THEN now + ThrottleWait ELSE @]
            /\ UNCHANGED <<reauthExecutions, reauthInFlight>>

\* reauthenticatePusher() called by itself
ReauthenticatePusher ==
    /\ ReauthenticatePusherCall
    /\ UNCHANGED <<now, pusherReconnects, pusherRequests, coreVars, signOutAndRedirectVars, routeVars>>

\* the timer of the throttle fires: lodash's timerExpired(), which runs the body on
\* the trailing edge only when the trailing option is set and a call is waiting
ThrottleTimerExpired ==
    /\ throttle.timerId # -1
    /\ now >= throttle.timerId
    /\ IF ShouldInvoke(now)
       THEN IF ThrottleTrailing /\ throttle.lastArgs
            THEN /\ throttle' = [throttle EXCEPT !.timerId = -1, !.lastArgs = FALSE, !.lastInvokeTime = now]
                 /\ ReauthenticateBody
            ELSE /\ throttle' = [throttle EXCEPT !.timerId = -1, !.lastArgs = FALSE]
                 /\ UNCHANGED <<reauthExecutions, reauthInFlight>>
       ELSE /\ throttle' = [throttle EXCEPT !.timerId = now + RemainingWait(now)]
            /\ UNCHANGED <<reauthExecutions, reauthInFlight>>
    /\ UNCHANGED <<now, reauthTriggers, pusherReconnects, pusherRequests, coreVars, signOutAndRedirectVars, routeVars>>

\* Authentication.reauthenticate() settles, lines 707-711: Pusher.reconnect on
\* success, the rejection is caught
ReauthenticateSettles(ok) ==
    /\ reauthInFlight > 0
    /\ reauthInFlight' = reauthInFlight - 1
    /\ pusherReconnects' = IF ok THEN pusherReconnects + 1 ELSE pusherReconnects
    /\ UNCHANGED <<now, throttle, reauthTriggers, reauthExecutions, pusherRequests, coreVars, signOutAndRedirectVars, routeVars>>

\* time passes
Tick(d) ==
    /\ now + d <= MaxTime
    /\ now' = now + d
    /\ UNCHANGED <<throttleVars, pusherReconnects, pusherRequests, coreVars, signOutAndRedirectVars, routeVars>>

\* authenticatePusher(socketID, channelName, callback), lines 717-740: the request is made
AuthenticatePusher(r) ==
    /\ pusherRequests[r].status = "unused"
    /\ \A q \in Requests : q < r => pusherRequests[q].status # "unused"
    /\ pusherRequests' = [pusherRequests EXCEPT ![r].status = "inflight"]
    /\ UNCHANGED <<now, throttleVars, pusherReconnects, coreVars, signOutAndRedirectVars, routeVars>>

\* callback(error, payload): error is NULL or names the Error built
CallbackCall(error, payload) == [error |-> error, payload |-> payload]

\* what the callback of a settled request has been called with, by the outcome
ExpectedCallback(outcome) ==
    CASE outcome = "notAuthenticated" -> CallbackCall("authToken is expired", "emptyAuth")
      [] outcome = "otherError" -> CallbackCall("code and message", "emptyAuth")
      [] outcome = "success" -> CallbackCall(NULL, "response")
      [] outcome = "rejected" -> CallbackCall("request failed", "emptyAuth")

\* mutant of AuthenticatePusherSettles: every response that is not a success
\* triggers the re-authentication
AuthenticatePusherSettles_ReauthenticatesOnAnyError(r, outcome) ==
    /\ pusherRequests[r].status = "inflight"
    /\ CASE outcome = "notAuthenticated" ->
              /\ pusherRequests' = [pusherRequests EXCEPT ![r] =
                      [status |-> "settled", response |-> outcome,
                       callbacks |-> Append(@.callbacks, CallbackCall("authToken is expired", "emptyAuth"))]]
              /\ ReauthenticatePusherCall
         [] outcome = "otherError" ->
              /\ pusherRequests' = [pusherRequests EXCEPT ![r] =
                      [status |-> "settled", response |-> outcome,
                       callbacks |-> Append(@.callbacks, CallbackCall("code and message", "emptyAuth"))]]
              /\ ReauthenticatePusherCall
         [] outcome = "success" ->
              /\ pusherRequests' = [pusherRequests EXCEPT ![r] =
                      [status |-> "settled", response |-> outcome,
                       callbacks |-> Append(@.callbacks, CallbackCall(NULL, "response"))]]
              /\ UNCHANGED throttleVars
         [] outcome = "rejected" ->
              /\ pusherRequests' = [pusherRequests EXCEPT ![r] =
                      [status |-> "settled", response |-> outcome,
                       callbacks |-> Append(@.callbacks, CallbackCall("request failed", "emptyAuth"))]]
              /\ UNCHANGED throttleVars
    /\ UNCHANGED <<now, pusherReconnects, coreVars, signOutAndRedirectVars, routeVars>>

\* the request settles, lines 741-763: the response (its jsonCode tells the three
\* kinds apart) goes through the then-handler, a rejection through the catch-handler
AuthenticatePusherSettles(r, outcome) ==
    /\ pusherRequests[r].status = "inflight"
    /\ CASE outcome = "notAuthenticated" ->
              /\ pusherRequests' = [pusherRequests EXCEPT ![r] =
                      [status |-> "settled", response |-> outcome,
                       callbacks |-> Append(@.callbacks, CallbackCall("authToken is expired", "emptyAuth"))]]
              /\ ReauthenticatePusherCall
         [] outcome = "otherError" ->
              /\ pusherRequests' = [pusherRequests EXCEPT ![r] =
                      [status |-> "settled", response |-> outcome,
                       callbacks |-> Append(@.callbacks, CallbackCall("code and message", "emptyAuth"))]]
              /\ UNCHANGED throttleVars
         [] outcome = "success" ->
              /\ pusherRequests' = [pusherRequests EXCEPT ![r] =
                      [status |-> "settled", response |-> outcome,
                       callbacks |-> Append(@.callbacks, CallbackCall(NULL, "response"))]]
              /\ UNCHANGED throttleVars
         [] outcome = "rejected" ->
              /\ pusherRequests' = [pusherRequests EXCEPT ![r] =
                      [status |-> "settled", response |-> outcome,
                       callbacks |-> Append(@.callbacks, CallbackCall("request failed", "emptyAuth"))]]
              /\ UNCHANGED throttleVars
    /\ UNCHANGED <<now, pusherReconnects, coreVars, signOutAndRedirectVars, routeVars>>

Next ==
    \/ SessionCallback
    \/ CredentialsCallback
    \/ WaitForUserSignIn
    \/ \E t \in SupportTokens, e \in Emails, a \in AccountIDs : SetSupportAuthToken(t, e, a)
    \/ \E f \in Flows, a \in AccountIDs, c \in ValidateCodes, t \in TwoFactorAuthCodes :
          SignInWithValidateCode(f, a, c, t)
    \/ \E f \in Flows : SignInWithValidateCodeIssue(f)
    \/ \E f \in Flows, r \in ResponseSessionData : SignInWithValidateCodeSuccess(f, r)
    \/ \E f \in Flows : SignInWithValidateCodeFailure(f)

Spec == Init /\ [][Next]_vars

InitGate ==
    /\ InitCore(InitStores)
    /\ InitSignOutAndRedirect(InitialURLs)
    /\ InitPusher
    /\ InitRoute({<<"">>})

\* anonymous-user gating and the redirect to sign-in
NextGate ==
    \/ SessionCallback
    \/ \E t \in SupportTokens, e \in Emails, a \in AccountIDs : SetSupportAuthToken(t, e, a)
    \/ \E b \in BOOLEAN : CheckIfActionIsAllowed(b)
    \/ InvokeHeldAction
    \/ SignOutAndRedirectToSignIn
    \/ InitialURLResolves
    \/ \E r \in Routes : Navigate(r)

SpecGate == InitGate /\ [][NextGate]_vars

\* sign-out: the LogOut command, the cache clear and the timing clear
NextSignOut ==
    \/ SessionCallback
    \/ CredentialsCallback
    \/ InvalidateAuthToken
    \/ SignOut
    \/ \E i \in 1..MaxSignOuts, o \in {"succeeded", "failed"} : LogOutSettles(i, o)
    \/ ClearCacheResolves

SpecSignOut == Init /\ [][NextSignOut]_vars

\* the request settles with a response and the callback throws when the
\* then-handler calls it (lines 744, 753 or 758): the handler ends there, before
\* reauthenticatePusher() at line 747, the promise of then() is rejected and the
\* catch-handler chained on it (lines 760-763) calls the callback again
AuthenticatePusherCallbackThrows(r, outcome) ==
    /\ pusherRequests[r].status = "inflight"
    /\ outcome \in {"notAuthenticated", "otherError", "success"}
    /\ pusherRequests' = [pusherRequests EXCEPT ![r] =
            [status |-> "settled", response |-> outcome,
             callbacks |-> Append(Append(@.callbacks, ExpectedCallback(outcome)),
                                  CallbackCall("request failed", "emptyAuth"))]]
    /\ UNCHANGED <<now, throttleVars, pusherReconnects, coreVars, signOutAndRedirectVars, routeVars>>

InitPusherSpec ==
    /\ InitCore({SignedInStart})
    /\ InitSignOutAndRedirect({<< >>})
    /\ InitPusher
    /\ InitRoute({<<"">>})

\* authorization of the real-time channels and throttled re-authentication
NextPusher ==
    \/ \E d \in TickSteps : Tick(d)
    \/ \E r \in Requests : AuthenticatePusher(r)
    \/ \E r \in Requests, o \in PusherOutcomes : AuthenticatePusherSettles(r, o)
    \/ ReauthenticatePusher
    \/ ThrottleTimerExpired
    \/ \E ok \in BOOLEAN : ReauthenticateSettles(ok)

SpecPusher == InitPusherSpec /\ [][NextPusher]_vars

\* authorization of the real-time channels with callbacks that return and
\* callbacks that throw
NextPusherCallbacks ==
    \/ \E d \in TickSteps : Tick(d)
    \/ \E r \in Requests : AuthenticatePusher(r)
    \/ \E r \in Requests, o \in PusherOutcomes : AuthenticatePusherSettles(r, o)
    \/ \E r \in Requests, o \in PusherOutcomes : AuthenticatePusherCallbackThrows(r, o)
    \/ ThrottleTimerExpired
    \/ \E ok \in BOOLEAN : ReauthenticateSettles(ok)

SpecPusherCallbacks == InitPusherSpec /\ [][NextPusherCallbacks]_vars

InitAutoAuth ==
    /\ InitStoresAndMirrors({SignedOutStart, MidSignInStart})
    /\ flows = [f \in OverlappingFlows |-> IdleFlow]
    /\ InitSignOutAndRedirect({<< >>})
    /\ InitPusher
    /\ InitRoute({<<"">>})

\* the automatic authentication of a magic link: sign-in flows that overlap, and
\* the page that starts them being mounted again
NextAutoAuth ==
    \/ CredentialsCallback
    \/ InitAutoAuthStateOnMount
    \/ \E f \in OverlappingFlows, a \in AccountIDs, c \in ValidateCodes, t \in TwoFactorAuthCodes :
          SignInWithValidateCode(f, a, c, t)
    \/ \E f \in OverlappingFlows : SignInWithValidateCodeIssue(f)
    \/ \E f \in OverlappingFlows : DeviceInfoRejects(f)
    \/ \E f \in OverlappingFlows, r \in ResponseSessionData : SignInWithValidateCodeSuccess(f, r)
    \/ \E f \in OverlappingFlows : SignInWithValidateCodeFailure(f)

SpecAutoAuth == InitAutoAuth /\ [][NextAutoAuth]_vars

InitCommands ==
    /\ InitCore({SignedOutStart, MidSignInStart, SignedInStart})
    /\ InitSignOutAndRedirect({<< >>})
    /\ InitPusher
    /\ InitRoute({<<"">>})

\* the operations that issue one remote command with its three update lists, and
\* the reset of a partial sign-in
NextCommands ==
    \/ CredentialsCallback
    \/ \E l \in Locales : PreferredLocaleCallback(l)
    \/ \E f \in Flows, l \in Logins \cup {credentials.login} : ResendValidationLink(f, l)
    \/ \E f \in Flows, l \in Logins \cup {credentials.login} : ResendValidateCode(f, l)
    \/ \E f \in Flows, e \in Emails : BeginSignIn(f, e)
    \/ \E f \in Flows, t \in Tokens : BeginAppleSignIn(f, t)
    \/ \E f \in Flows, t \in Tokens : BeginGoogleSignIn(f, t)
    \/ \E f \in Flows, e \in Logins \cup {"l0"}, t \in Tokens : SignInWithShortLivedAuthToken(f, e, t)
    \/ \E f \in Flows, c \in SignInValidateCodes, t \in TwoFactorAuthCodes : SignIn(f, c, t)
    \/ \E f \in Flows : SignInIssue(f)
    \/ \E f \in Flows, a \in AccountIDs, c \in ValidateCodes, t \in TwoFactorAuthCodes :
          SignInWithValidateCode(f, a, c, t)
    \/ \E f \in Flows : SignInWithValidateCodeIssue(f)
    \/ \E f \in Flows, r \in ResponseSessionData : SignInWithValidateCodeSuccess(f, r)
    \/ \E f \in Flows : SignInWithValidateCodeFailure(f)
    \/ \E f \in Flows : DeviceInfoRejects(f)
    \/ \E f \in Flows : RequestUnlinkValidationLink(f)
    \/ \E f \in Flows, a \in AccountIDs, c \in ValidateCodes : UnlinkLogin(f, a, c)
    \/ \E f \in Flows, b \in BOOLEAN : ToggleTwoFactorAuth(f, b)
    \/ \E f \in Flows, t \in {"tfa"} : ValidateTwoFactorAuth(f, t)
    \/ \E f \in Flows, r \in ResponseSessionData : CommandSucceeds(f, r)
    \/ \E f \in Flows : CommandFails(f)
    \/ ClearSignInData

SpecCommands == InitCommands /\ [][NextCommands]_vars

InitOverlap ==
    /\ InitStoresAndMirrors({MidSignInStart})
    /\ flows = [f \in OverlappingFlows |-> IdleFlow]
    /\ InitSignOutAndRedirect({<< >>})
    /\ InitPusher
    /\ InitRoute({<<"">>})

\* sign-in flows and other commands started while earlier ones are in flight
NextOverlap ==
    \/ CredentialsCallback
    \/ \E l \in Locales : PreferredLocaleCallback(l)
    \/ \E f \in OverlappingFlows, a \in {<<"c1", "">>, <<"", "tfa">>} : SignIn(f, a[1], a[2])
    \/ \E f \in OverlappingFlows : SignInIssue(f)
    \/ \E f \in OverlappingFlows, a \in AccountIDs, c \in ValidateCodes :
          SignInWithValidateCode(f, a, c, "")
    \/ \E f \in OverlappingFlows : SignInWithValidateCodeIssue(f)
    \/ \E f \in OverlappingFlows, r \in ResponseSessionData : SignInWithValidateCodeSuccess(f, r)
    \/ \E f \in OverlappingFlows : SignInWithValidateCodeFailure(f)
    \/ \E f \in OverlappingFlows, l \in Logins : ResendValidateCode(f, l)
    \/ ClearSignInData
    \/ \E f \in OverlappingFlows, a \in AccountIDs, c \in ValidateCodes : UnlinkLogin(f, a, c)
    \/ \E f \in OverlappingFlows : ToggleTwoFactorAuth(f, TRUE)
    \/ \E f \in OverlappingFlows, r \in ResponseSessionData : CommandSucceeds(f, r)
    \/ \E f \in OverlappingFlows : CommandFails(f)

SpecOverlap == InitOverlap /\ [][NextOverlap]_vars

InitWaiters ==
    /\ InitCore({SignedOutStart})
    /\ InitSignOutAndRedirect({<< >>})
    /\ InitPusher
    /\ InitRoute({<<"">>})

\* the waiters for the sign-in and every writer of the session's authToken
NextWaiters ==
    \/ SessionCallback
    \/ WaitForUserSignIn
    \/ InvalidateAuthToken
    \/ \E t \in SupportTokens, e \in Emails, a \in AccountIDs : SetSupportAuthToken(t, e, a)
    \/ \E f \in Flows, c \in ValidateCodes : SignIn(f, c, "")
    \/ \E f \in Flows : SignInIssue(f)
    \/ \E f \in Flows, r \in ResponseSessionData : CommandSucceeds(f, r)
    \/ \E f \in Flows : CommandFails(f)

SpecWaiters == InitWaiters /\ [][NextWaiters]_vars

\* a call of canAccessRouteByAnonymousUser(route): the caller gets the result
CanAccessRouteByAnonymousUserCall ==
    /\ canAccessRoute = NULL
    /\ canAccessRoute' = IF CanAccessRouteByAnonymousUser(routeAsked) THEN "true" ELSE "false"
    /\ UNCHANGED <<routeAsked, pusherVars, coreVars, signOutAndRedirectVars>>

InitRoutes ==
    /\ InitCore({AnonymousStart})
    /\ InitSignOutAndRedirect({<< >>})
    /\ InitPusher
    /\ InitRoute(RouteInputs)

\* the routes an anonymous user may open
NextRoutes == CanAccessRouteByAnonymousUserCall

SpecRoutes == InitRoutes /\ [][NextRoutes]_vars

\* ------------------------------------------------------------------ claims
\* C1, C2, C3 and C10 are checked under Spec (waiting for the sign-in, the session
\* writers and a sign-in by validate code), C4 and C5 under SpecGate, C6 under
\* SpecSignOut, C7, C8 and C9 under SpecPusher.

\* the step is a call of the session subscriber with a truthy authToken
ObservesToken == sessionPending /\ ~sessionPending' /\ Truthy(sessionAuthToken')

\* C1: waitForUserSignIn() called while the last observed authToken is truthy
\* returns a promise that is resolved with true in the call itself; no resolver is
\* registered and the pending slot is left as it was.
C1_ResolvesImmediately ==
    [][\A p \in Waiters :
          (promise[p].status = "unused" /\ promise'[p].status # "unused" /\ Truthy(sessionAuthToken))
          => /\ promise'[p].status = "fulfilled_true"
             /\ ~promise'[p].registered
             /\ authPromiseResolver' = authPromiseResolver]_vars

\* a promise resolved by the call that created it
C1_Witness == \E p \in Waiters : promise[p].status = "fulfilled_true" /\ ~promise[p].registered

C3_LastRegisteredWins ==
    [][/\ \A p \in Waiters :
             (promise[p].status = "unused" /\ promise'[p].status = "pending") => authPromiseResolver' = p
       /\ \A p \in Waiters :
             (promise[p].status = "pending" /\ authPromiseResolver # p) => promise'[p] = promise[p]
       /\ authPromiseResolver # 0 => promise[authPromiseResolver].status = "pending"
       /\ (ObservesToken /\ authPromiseResolver # 0)
             => /\ promise'[authPromiseResolver].status = "fulfilled_true"
                /\ authPromiseResolver' = 0]_vars

\* the second of two overlapping calls has been resolved, the first is still pending
C3_Witness ==
    \E p, q \in Waiters :
        /\ p < q
        /\ promise[p].status = "pending"
        /\ promise[q].status = "fulfilled_true"
        /\ promise[q].registered
        /\ authPromiseResolver = 0

\* C4: checkIfActionIsAllowed returns the callback itself unless the last observed
\* authTokenType is the anonymous marker and isAnonymousAction is false; it then
\* returns a replacement whose invocation ends on a sign-in entry point, and the
\* callback is called only through a returned callback, never through a replacement.
C4_GateReturnsCallbackOrReplacement ==
    [][/\ \A b \in BOOLEAN :
             CheckIfActionIsAllowed(b)
             => heldAction' = IF sessionAuthTokenType # ANONYMOUS_ACCOUNT \/ b
                              THEN "callback" ELSE "replacement"
       /\ callbackCalls' # callbackCalls => heldAction = "callback"
       /\ (heldAction = "replacement" /\ InvokeHeldAction)
             => /\ callbackCalls' = callbackCalls
                /\ activeRoute' \in {SIGN_IN_MODAL, SIGN_IN_PAGE}]_vars

\* an anonymous user holds a replacement, and the sign-in modal is shown
C4_Witness ==
    /\ heldAction = "replacement"
    /\ sessionAuthTokenType = ANONYMOUS_ACCOUNT
    /\ activeRoute = SIGN_IN_MODAL
    /\ initialURLLookups > 0
    /\ callbackCalls = 0

\* a step that runs signOutAndRedirectToSignIn(), called directly or through a replacement
RunsSignOutAndRedirectToSignIn ==
    \/ SignOutAndRedirectToSignIn
    \/ heldAction = "replacement" /\ InvokeHeldAction

\* C5: signOutAndRedirectToSignIn() of a user who is not anonymous issues LogOut,
\* starts the cache clear, clears the timing data and redirects to the sign-in page;
\* of an anonymous user it issues no LogOut and clears nothing, does nothing at all
\* when the sign-in modal is the active route and otherwise navigates to it and looks
\* the initial link up; the public room is staged only from such a lookup, and only
\* with the report the initial link opens.
C5_SignOutAndRedirectBranches ==
    [][/\ RunsSignOutAndRedirectToSignIn
             => IF sessionAuthTokenType # ANONYMOUS_ACCOUNT
                THEN /\ Len(logOutCommands') = Len(logOutCommands) + 1
                     /\ cacheClearsStarted' = cacheClearsStarted + 1
                     /\ timingClears' = timingClears + 1
                     /\ activeRoute' = SIGN_IN_PAGE
                     /\ initialURLLookups' = initialURLLookups
                ELSE /\ UNCHANGED signOutVars
                     /\ IF activeRoute = SIGN_IN_MODAL
                        THEN UNCHANGED redirectVars
                        ELSE /\ activeRoute' = SIGN_IN_MODAL
                             /\ initialURLLookups' = initialURLLookups + 1
       /\ lastOpenedPublicRoomID' # lastOpenedPublicRoomID
             => /\ initialURLLookups' = initialURLLookups - 1
                /\ GetReportIDFromLink(initialURL) # ""
                /\ lastOpenedPublicRoomID' = GetReportIDFromLink(initialURL)
       /\ (initialURLLookups' = initialURLLookups - 1 /\ GetReportIDFromLink(initialURL) # "")
             => lastOpenedPublicRoomID' = GetReportIDFromLink(initialURL)]_vars

\* the anonymous branch has run to its end: the modal is shown, the public room of
\* the initial link is staged, nothing was signed out
C5_Witness ==
    /\ sessionAuthTokenType = ANONYMOUS_ACCOUNT
    /\ activeRoute = SIGN_IN_MODAL
    /\ lastOpenedPublicRoomID = "123"
    /\ logOutCommands = << >>
    /\ cacheClearsStarted = 0

\* C6: whatever becomes of the LogOut command (success, failure, no answer), every
\* signOut() has started its cache clear and cleared the timing data: each command
\* issued goes with one cache clear and one timing clear, and carries shouldRetry false.
C6_SignOutDoesNotWaitForLogOut ==
    /\ cacheClearsStarted = Len(logOutCommands)
    /\ timingClears = Len(logOutCommands)
    /\ \A i \in 1..Len(logOutCommands) : logOutCommands[i].shouldRetry = FALSE

\* two sign-outs done, the LogOut of one has failed, that of the other has not settled
C6_Witness ==
    /\ Len(logOutCommands) = 2
    /\ logOutCommands[1].status = "failed"
    /\ logOutCommands[2].status = "inflight"
    /\ cacheClearsStarted = 2
    /\ timingClears = 2

C8_OneExecutionPerWindow ==
    /\ \A i, j \in 1..Len(reauthExecutions) :
          i < j => reauthExecutions[j] - reauthExecutions[i] >= ThrottleWait
    /\ \A k \in 1..Len(reauthTriggers) :
          \E i \in 1..Len(reauthExecutions) :
              /\ reauthExecutions[i] <= reauthTriggers[k]
              /\ reauthTriggers[k] - reauthExecutions[i] < ThrottleWait
    /\ Len(reauthTriggers) > 0 => reauthExecutions[1] = reauthTriggers[1]
    /\ reauthInFlight + pusherReconnects <= Len(reauthExecutions)

\* three calls within one window, two of them from not-authenticated responses: one
\* run, one reconnect
C8_Witness ==
    /\ Len(reauthTriggers) = 3
    /\ reauthTriggers[3] - reauthTriggers[1] < ThrottleWait
    /\ reauthTriggers[3] > reauthTriggers[1]
    /\ \A r \in Requests : pusherRequests[r].response = "notAuthenticated"
    /\ Len(reauthExecutions) = 1
    /\ pusherReconnects = 1

\* C9: the throttled body runs only in a step that is a call of
\* reauthenticatePusher, never when the timer of the throttle fires; a call less
\* than ThrottleWait after the last run does not run it, a later one does.
C9_NoTrailingCall ==
    [][/\ reauthExecutions' # reauthExecutions
             => /\ reauthTriggers' = Append(reauthTriggers, now)
                /\ reauthExecutions' = Append(reauthExecutions, now)
       /\ (reauthTriggers' # reauthTriggers /\ Len(reauthExecutions) > 0)
             => IF now - reauthExecutions[Len(reauthExecutions)] < ThrottleWait
                THEN reauthExecutions' = reauthExecutions
                ELSE reauthExecutions' = Append(reauthExecutions, now)]_vars

\* a call was dropped inside the window, the window has passed and the timer has
\* fired: the body has still run once only
C9_Witness ==
    /\ Len(reauthTriggers) >= 2
    /\ Len(reauthExecutions) = 1
    /\ reauthTriggers[2] - reauthExecutions[1] < ThrottleWait
    /\ now - reauthExecutions[1] >= ThrottleWait
    /\ throttle.timerId = -1
    /\ ~throttle.lastArgs

\* C10: setSupportAuthToken with an empty token replaces the session by the empty
\* session; with a non-empty token it sets authToken, supportAuthToken, email and
\* accountID and leaves authTokenType and autoAuthState as they were.
C10_SetSupportAuthTokenOutcomes ==
    [][\A t \in SupportTokens, e \in Emails, a \in AccountIDs :
          SetSupportAuthToken(t, e, a)
          => IF t = ""
             THEN session' = EmptySession
             ELSE /\ session'.authToken = "1"
                  /\ session'.supportAuthToken = t
                  /\ session'.email = e
                  /\ session'.accountID = a
                  /\ session'.authTokenType = session.authTokenType
                  /\ session'.autoAuthState = session.autoAuthState]_vars

\* a support session set on top of a session whose other fields hold values
C10_Witness ==
    /\ session.supportAuthToken = "sup"
    /\ session.authToken = "1"
    /\ session.authTokenType = ANONYMOUS_ACCOUNT
    /\ session.autoAuthState = JUST_SIGNED_IN

\* C11 and C19 are checked under SpecAutoAuth (overlapping sign-in flows and
\* initAutoAuthState), C12 and C13 under Spec, C14 to C17 under SpecCommands.

\* C11: initAutoAuthState(cached) writes JUST_SIGNED_IN for SIGNING_IN and
\* JUST_SIGNED_IN, NOT_STARTED for FAILED and NOT_STARTED, leaves every other field
\* of the session as it was, and applied to its own result gives that result again.
C11_InitAutoAuthState ==
    [][\A c \in AutoAuthStates :
          InitAutoAuthState(c)
          => /\ session'.autoAuthState = IF c \in {SIGNING_IN, JUST_SIGNED_IN} THEN JUST_SIGNED_IN
                                         ELSE NOT_STARTED
             /\ \A k \in SessionFields \ {"autoAuthState"} : session'[k] = session[k]
             /\ AutoAuthStateAfterInit(session'.autoAuthState) = session'.autoAuthState]_vars

\* JUST_SIGNED_IN while the only started flow is still in flight: written by
\* initAutoAuthState(SIGNING_IN)
C11_Witness ==
    /\ session.autoAuthState = JUST_SIGNED_IN
    /\ flows[1].pc = "inflight"
    /\ \A f \in DOMAIN flows : f # 1 => flows[f].pc = "idle"

\* C12: the optimistic patches of a signInWithValidateCode flow set autoAuthState
\* to SIGNING_IN and isLoading; the settlement of its command sets JUST_SIGNED_IN on
\* success and FAILED on failure and clears isLoading and loadingForm in both
\* cases; a flow settles once, so it writes one of the two final values, once.
C12_SingleFlowAutoAuthState ==
    [][/\ \A f \in DOMAIN flows :
             /\ (flows[f].op = "signInWithValidateCode" /\ flows[f].pc = "device" /\ flows'[f].pc = "inflight")
                   => /\ session'.autoAuthState = SIGNING_IN
                      /\ account'.isLoading = "true"
             /\ (flows[f].op = "signInWithValidateCode" /\ flows[f].pc = "inflight")
                   => \/ flows'[f] = flows[f]
                      \/ /\ flows'[f].pc = "succeeded"
                         /\ session'.autoAuthState = JUST_SIGNED_IN
                         /\ account'.isLoading = "false"
                         /\ account'.loadingForm = NULL
                      \/ /\ flows'[f].pc = "failed"
                         /\ session'.autoAuthState = FAILED
                         /\ account'.isLoading = "false"
                         /\ account'.loadingForm = NULL
             /\ flows[f].pc \in {"succeeded", "failed"} => flows'[f] = flows[f]
       /\ (session'.autoAuthState \in {JUST_SIGNED_IN, FAILED} /\ session'.autoAuthState # session.autoAuthState)
             => \E f \in DOMAIN flows :
                    /\ flows[f].op = "signInWithValidateCode"
                    /\ flows[f].pc = "inflight"
                    /\ flows'[f].pc = IF session'.autoAuthState = FAILED THEN "failed" ELSE "succeeded"]_vars

\* the flow has failed: FAILED is written, the loading state is cleared
C12_Witness ==
    /\ flows[1].pc = "failed"
    /\ session.autoAuthState = FAILED
    /\ account.isLoading = "false"
    /\ account.loadingForm = NULL

\* C13: the validate code of a signInWithValidateCode call is, with a two-factor
\* code, the one of the snapshot the coordinator holds of the Credential Store at
\* the call (the stored one once the store's notification has been delivered) and
\* not the caller's; without a two-factor code it is the caller's; the command is
\* issued with it and the success patches store it in Credentials.
C13_ValidateCodeSource ==
    [][\A f \in DOMAIN flows :
          /\ (flows[f].pc = "idle" /\ flows'[f].op = "signInWithValidateCode")
                => IF Truthy(flows'[f].twoFactorAuthCode)
                   THEN /\ flows'[f].validateCode = credentials.validateCode
                        /\ ~credentialsPending => flows'[f].validateCode = credentialsStore.validateCode
                   ELSE flows'[f].validateCode = flows'[f].code
          /\ (flows[f].op = "signInWithValidateCode" /\ flows'[f].pc = "inflight")
                => flows'[f].validateCode = flows[f].validateCode
          /\ (flows[f].op = "signInWithValidateCode" /\ flows'[f].pc = "succeeded"
              /\ flows[f].validateCode # NULL)
                => credentialsStore'.validateCode = flows[f].validateCode]_vars

\* a sign-in from the two-factor step is in flight with the stored code, which is
\* not the one the caller gave
C13_Witness ==
    /\ flows[1].pc = "inflight"
    /\ Truthy(flows[1].twoFactorAuthCode)
    /\ flows[1].validateCode = "c0"
    /\ flows[1].code = "c1"
    /\ credentialsStore.validateCode = "c0"

\* the step changes session.autoAuthState to v
AutoAuthStateBecomes(v) == session'.autoAuthState = v /\ session.autoAuthState # v

\* C19 as stated: autoAuthState becomes FAILED only from SIGNING_IN, JUST_SIGNED_IN
\* only from SIGNING_IN (the step from JUST_SIGNED_IN to itself is no change), and
\* NOT_STARTED only by initAutoAuthState from a state other than SIGNING_IN and
\* JUST_SIGNED_IN.
C19_OnlyDiagramEdges ==
    [][/\ AutoAuthStateBecomes(FAILED) => session.autoAuthState = SIGNING_IN
       /\ AutoAuthStateBecomes(JUST_SIGNED_IN) => session.autoAuthState = SIGNING_IN
       /\ AutoAuthStateBecomes(NOT_STARTED)
             => /\ \E c \in AutoAuthStates : InitAutoAuthState(c)
                /\ session.autoAuthState \notin {SIGNING_IN, JUST_SIGNED_IN}]_vars

\* C19 as amended: autoAuthState becomes FAILED only by the failure patches of a
\* flow whose command is in flight, JUST_SIGNED_IN only by the success patches of
\* such a flow or by initAutoAuthState called with SIGNING_IN or JUST_SIGNED_IN,
\* NOT_STARTED only by initAutoAuthState called with another state; the state it
\* leaves is whatever the last writer left.
C19_EdgesLabelledByWriter ==
    [][/\ AutoAuthStateBecomes(FAILED)
             => \E f \in DOMAIN flows : flows[f].pc = "inflight" /\ flows'[f].pc = "failed"
       /\ AutoAuthStateBecomes(JUST_SIGNED_IN)
             => \/ \E f \in DOMAIN flows : flows[f].pc = "inflight" /\ flows'[f].pc = "succeeded"
                \/ \E c \in {SIGNING_IN, JUST_SIGNED_IN} : InitAutoAuthState(c)
       /\ AutoAuthStateBecomes(NOT_STARTED)
             => \E c \in {FAILED, NOT_STARTED} : InitAutoAuthState(c)]_vars

\* of two overlapping flows one has failed and the other has succeeded after it:
\* JUST_SIGNED_IN was written over FAILED
C19_Witness ==
    /\ flows[1].pc = "failed"
    /\ flows[2].pc = "succeeded"
    /\ session.autoAuthState = JUST_SIGNED_IN

BeginOps == {"beginSignIn", "beginAppleSignIn", "beginGoogleSignIn"}

\* C14: a call of beginSignIn, beginAppleSignIn or beginGoogleSignIn issues its
\* request in the call, with isLoading true and loadingForm the login form; the
\* request settles once and is never issued again; on success isLoading is false,
\* loadingForm null and Credentials.validateCode null; on failure isLoading is
\* false, loadingForm null, errors the cannot-get-account-details error, and
\* Credentials is as it was.
C14_BeginSignInPatches ==
    [][\A f \in DOMAIN flows :
          /\ (flows[f].pc = "idle" /\ flows'[f].op \in BeginOps)
                => /\ flows'[f].pc = "inflight"
                   /\ account'.isLoading = "true"
                   /\ account'.loadingForm = LOGIN_FORM
          /\ flows[f].op \in BeginOps
                => /\ flows[f].pc = "inflight"
                   /\ \/ flows'[f] = flows[f]
                      \/ /\ flows'[f].pc = "succeeded"
                         /\ account'.isLoading = "false"
                         /\ account'.loadingForm = NULL
                         /\ credentialsStore'.validateCode = NULL
                      \/ /\ flows'[f].pc = "failed"
                         /\ account'.isLoading = "false"
                         /\ account'.loadingForm = NULL
                         /\ account'.errors = CANNOT_GET_ACCOUNT_DETAILS
                         /\ credentialsStore' = credentialsStore
          /\ flows[f].pc \in {"succeeded", "failed"} => flows'[f] = flows[f]]_vars

\* a begin request has failed while a validate code was staged: the error is
\* set, the code is still there
C14_Witness ==
    /\ flows[1].pc = "failed"
    /\ account.errors = CANNOT_GET_ACCOUNT_DETAILS
    /\ account.isLoading = "false"
    /\ account.loadingForm = NULL
    /\ credentialsStore.validateCode = "c0"

\* C15: clearSignInData() nulls Account and Credentials in one step and leaves the
\* session alone: a step that is no step of a command flow and changes the Account
\* or the Credentials is the call's one write, and after it both are nulled.
C15_ClearSignInDataAtomic ==
    [][/\ ClearSignInData
             => /\ account' = EmptyAccount
                /\ credentialsStore' = EmptyCredentials
                /\ session' = session
                /\ UNCHANGED mirrorVars
       /\ (flows' = flows /\ (account' # account \/ credentialsStore' # credentialsStore))
             => /\ account' = EmptyAccount
                /\ credentialsStore' = EmptyCredentials
                /\ session' = session]_vars

\* a signed-in user's Account and Credentials have been nulled after a failed
\* command; the session still holds the token
C15_Witness ==
    /\ account = EmptyAccount
    /\ credentialsStore = EmptyCredentials
    /\ flows[1].pc = "failed"
    /\ session.authToken = "tok"

\* every field of the patch has the patch's value in the object
Applied(patch, obj) == \A k \in DOMAIN patch : obj[k] = patch[k]

\* the stores after the step hold the updates of the list
UpdatesApplied(updates) ==
    /\ Applied(updates.account, account')
    /\ Applied(updates.credentials, credentialsStore')
    /\ Applied(updates.session, session')

\* C16: in the step that issues the command of a flow the optimistic list is in
\* the stores; the flow then settles once, from in flight, and that step applies
\* the success list or the failure list, the one of its outcome; the Account
\* changes in no step other than an issue, a settlement and clearSignInData.
C16_PatchOrder ==
    [][/\ \A f \in DOMAIN flows :
             /\ (flows[f].pc # "inflight" /\ flows'[f].pc = "inflight")
                   => UpdatesApplied(FlowData(flows'[f]).optimisticData)
             /\ (flows[f].pc = "inflight" /\ flows'[f].pc = "succeeded")
                   => UpdatesApplied(FlowData(flows[f]).successData)
             /\ (flows[f].pc = "inflight" /\ flows'[f].pc = "failed")
                   => UpdatesApplied(FlowData(flows[f]).failureData)
             /\ (flows'[f].pc \in {"succeeded", "failed"} /\ flows'[f] # flows[f])
                   => flows[f].pc = "inflight"
             /\ flows[f].pc = "inflight" => flows'[f].pc \in {"inflight", "succeeded", "failed"}
             /\ flows[f].pc \in {"succeeded", "failed"} => flows'[f] = flows[f]
       /\ account' # account
             => \/ ClearSignInData
                \/ \E f \in DOMAIN flows :
                       /\ flows'[f].pc # flows[f].pc
                       /\ "inflight" \in {flows[f].pc, flows'[f].pc}]_vars

\* unlinkLogin has succeeded: its success list is in the stores
C16_Witness ==
    /\ flows[1].pc = "succeeded"
    /\ account.message = "unlinkLoginForm.succesfullyUnlinkedLogin"
    /\ account.isLoading = "false"
    /\ credentialsStore.login = ""

\* the route as the allow-list is meant to see it: the leading separator dropped,
\* the report identifier the route embeds replaced by the placeholder
RouteWithPlaceholder(r) ==
    LET stripped == IF StartsWithSlash(r) THEN Tail(r) ELSE r
    IN  IF ParseReportRouteParams(r).reportID # ""
        THEN [stripped EXCEPT ![2] = ":reportID"]
        ELSE stripped

\* C18: canAccessRouteByAnonymousUser(route) is true exactly when the route
\* encodes a report identifier, or when the route with its report identifier
\* replaced by the placeholder and its leading separator dropped is one of the
\* three permitted templates. Checked under SpecRoutes.
C18_AllowList ==
    canAccessRoute # NULL
    => (canAccessRoute = "true"
        <=> \/ GetReportIDFromLink(routeAsked) # ""
            \/ RouteWithPlaceholder(routeAsked) \in RoutesCanAccessByAnonymousUser)

\* C17: no operation leaves a rejection unhandled: no flow ends with the
\* rejection of a promise it depends on reaching no handler.
C17_NoUnhandledRejection ==
    \A f \in DOMAIN flows : flows[f].pc # "unhandledRejection"

\* C20: while a resolver is pending the last observed authToken is falsy and the
\* resolver's promise is pending; every observation of a truthy authToken, whoever
\* wrote it, resolves that promise with true and empties the slot, and a promise
\* once resolved is not touched again. Checked under SpecWaiters.
C20_PendingWaiterImpliesNoToken ==
    /\ [](authPromiseResolver # 0
            => /\ ~Truthy(sessionAuthToken)
               /\ promise[authPromiseResolver].status = "pending")
    /\ [][/\ (ObservesToken /\ authPromiseResolver # 0)
                => /\ promise'[authPromiseResolver].status = "fulfilled_true"
                   /\ authPromiseResolver' = 0
          /\ \A p \in Waiters :
                promise[p].status = "fulfilled_true" => promise'[p] = promise[p]]_vars

\* a waiter registered without a token has been resolved by the observation of
\* the sentinel invalidateAuthToken wrote
C20_Witness ==
    \E p \in Waiters :
        /\ promise[p].status = "fulfilled_true"
        /\ promise[p].registered
        /\ sessionAuthToken = "pizza"
        /\ authPromiseResolver = 0

\* C21 and C22 are checked under SpecOverlap (commands started while earlier ones
\* are in flight).

SignInFlowOps == {"signIn", "signInWithValidateCode"}

\* C21: a sign-in flow in flight is never cancelled: whatever starts or settles
\* meanwhile, it stays in flight with its arguments until its own response
\* arrives, and the step of that arrival applies its success list or its failure
\* list to the stores as they are then, so the stores hold the values of the
\* response that arrived last.
C21_SupersededFlowStillApplied ==
    [][\A f \in DOMAIN flows :
          (flows[f].pc = "inflight" /\ flows[f].op \in SignInFlowOps)
              => /\ flows'[f].pc \in {"inflight", "succeeded", "failed"}
                 /\ flows'[f].pc = "inflight" => flows'[f] = flows[f]
                 /\ flows'[f].pc = "succeeded"
                       => /\ account' = Merge(account, FlowData(flows[f]).successData.account)
                          /\ credentialsStore' = Merge(credentialsStore, FlowData(flows[f]).successData.credentials)
                          /\ Applied(FlowData(flows[f]).successData.session, session')
                 /\ flows'[f].pc = "failed"
                       => /\ account' = Merge(account, FlowData(flows[f]).failureData.account)
                          /\ credentialsStore' = credentialsStore
                          /\ session' = Merge(session, FlowData(flows[f]).failureData.session)]_vars

\* the second flow's command was issued (SIGNING_IN) while the first flow was
\* under way; the first flow's success has arrived since and its success list is
\* in the stores, the second flow still being in flight
C21_Witness ==
    /\ flows[1].pc = "succeeded"
    /\ flows[2].pc = "inflight"
    /\ flows[2].op = "signInWithValidateCode"
    /\ \A f \in DOMAIN flows : f # 1 => flows[f].pc # "succeeded"
    /\ session.autoAuthState = JUST_SIGNED_IN
    /\ account.isLoading = "false"

\* no command a flow issued is waiting for its response
NoCommandOutstanding == \A f \in DOMAIN flows : flows[f].pc # "inflight"

\* C22: once every command issued has settled, with success or with failure and
\* in whatever order the responses of overlapping flows arrived, the Account's
\* isLoading is not true.
C22_LoadingNeverStuck ==
    NoCommandOutstanding => account.isLoading # "true"

\* two signInWithValidateCode flows overlapped: the second, started later, was
\* issued and has succeeded (its accountID is in the Credentials), the first
\* failed after the second was issued (FAILED is the last autoAuthState written);
\* both have settled and the loading flag is cleared
C22_Witness ==
    /\ flows[1].pc = "failed"
    /\ flows[2].pc = "succeeded"
    /\ NoCommandOutstanding
    /\ session.autoAuthState = FAILED
    /\ credentialsStore.accountID = "a1"
    /\ account.isLoading = "false"

\* C23: invoking a replacement that checkIfActionIsAllowed returned issues no
\* LogOut command and starts no cache clear, whatever session values were
\* observed since it was returned. Checked under SpecGate.
C23_ReplacementNeverSignsOut ==
    [][(heldAction = "replacement" /\ InvokeHeldAction)
          => /\ logOutCommands' = logOutCommands
             /\ cacheClearsStarted' = cacheClearsStarted]_vars

\* C24: the step of signOut() that issues the LogOut command starts the cache
\* clear of that call, none having been started ahead of its command; the
\* command carries the auth token NetworkStore holds at the call (the session's,
\* once the session has been observed) and the autoGeneratedLogin of the
\* credentials at the call, "" when there is none, and keeps both whatever
\* changes afterwards. Checked under SpecSignOut.
C24_LogOutCarriesCurrentToken ==
    [][/\ Len(logOutCommands') > Len(logOutCommands)
             => /\ Len(logOutCommands') = Len(logOutCommands) + 1
                /\ logOutCommands'[Len(logOutCommands')].authToken = networkAuthToken
                /\ ~sessionPending
                      => logOutCommands'[Len(logOutCommands')].authToken = session.authToken
                /\ logOutCommands'[Len(logOutCommands')].partnerUserID
                      = IF credentials.autoGeneratedLogin = NULL
                        THEN "" ELSE credentials.autoGeneratedLogin
                /\ ~credentialsPending
                      => logOutCommands'[Len(logOutCommands')].partnerUserID
                            = IF credentialsStore.autoGeneratedLogin = NULL
                              THEN "" ELSE credentialsStore.autoGeneratedLogin
                /\ cacheClearsStarted = Len(logOutCommands)
                /\ cacheClearsStarted' = cacheClearsStarted + 1
       /\ \A i \in 1..Len(logOutCommands) :
             /\ logOutCommands'[i].authToken = logOutCommands[i].authToken
             /\ logOutCommands'[i].partnerUserID = logOutCommands[i].partnerUserID]_vars

\* a signed-in user has signed out: the command carries the token and the
\* auto-generated login of that moment, the token having been invalidated since
C24_Witness ==
    /\ Len(logOutCommands) >= 1
    /\ logOutCommands[1].authToken = "tok"
    /\ logOutCommands[1].partnerUserID = "agl"
    /\ cacheClearsStarted >= 1
    /\ networkAuthToken = "pizza"

\* C25: when a signIn flow that sent a validate code succeeds, the Credentials
\* hold that code as their validateCode, also when the caller gave an empty code
\* with a two-factor code and the stored one was sent. Checked under SpecCommands.
C25_StoredCodeIsSentCode ==
    [][\A f \in DOMAIN flows :
          (/\ flows[f].op = "signIn"
           /\ flows[f].pc = "inflight"
           /\ flows[f].validateCode # NULL
           /\ flows'[f].pc = "succeeded")
              => credentialsStore'.validateCode = flows[f].validateCode]_vars

\* C26: a settled authenticatePusher request has called its callback exactly once,
\* whichever branch its response or its rejection took. Checked under
\* SpecPusherCallbacks.
C26_CallbackExactlyOnce ==
    \A r \in Requests :
        pusherRequests[r].status = "settled" => Len(pusherRequests[r].callbacks) = 1

\* C27: the call of signIn() changes no store and issues no command; the step in
\* which device identity resolves applies the loading patch and issues the
\* command with the login and the validate code of the credentials and the
\* preferred locale as they are observed in that step, whatever they were at the
\* call. Checked under SpecOverlap.
C27_SignInReadsAtIssue ==
    [][\A f \in DOMAIN flows :
          /\ (flows[f].pc = "idle" /\ flows'[f].op = "signIn")
                => /\ flows'[f].pc = "device"
                   /\ flows'[f].email = NULL /\ flows'[f].locale = NULL
                   /\ flows'[f].validateCode = NULL
                   /\ UNCHANGED <<account, credentialsStore, session, credentials, preferredLocale>>
          /\ (flows[f].op = "signIn" /\ flows'[f].pc = "inflight" /\ flows[f].pc # "inflight")
                => /\ flows[f].pc = "device"
                   /\ account'.isLoading = "true"
                   /\ flows'[f].email = credentials.login
                   /\ flows'[f].locale = preferredLocale
                   /\ flows'[f].validateCode =
                         IF Truthy(flows[f].code) THEN flows[f].code
                         ELSE IF Truthy(flows[f].twoFactorAuthCode) THEN credentials.validateCode
                         ELSE NULL
          /\ (flows[f].op = "signIn" /\ flows[f].pc = "device" /\ flows'[f].pc = "device")
                => flows'[f] = flows[f]]_vars

\* signIn() was called with the login "l0" staged; an unlinkLogin started after
\* that call has succeeded and emptied the login, the credentials have been
\* observed, and the sign-in command issued then carries the empty login
C27_Witness ==
    /\ flows[1].op = "signIn"
    /\ flows[1].pc = "inflight"
    /\ flows[1].email = ""
    /\ flows[1].locale = "en"
    /\ flows[2].pc = "succeeded"
    /\ account.isLoading = "true"

====
